---------------------------- MODULE Spec2Model ----------------------------
(***************************************************************************)
(* A model of app/main.py of n3fjp-map: the Hub (state, dedup, merge,      *)
(* fan-out to WebSocket subscribers), the handlers of the N3FJP API        *)
(* connection and of the status feed that call it, and the supervisors     *)
(* that keep the two connections.                                          *)
(*                                                                         *)
(* Conventions.                                                            *)
(*  - A Python str is a sequence of one-character strings; "" is << >>.    *)
(*  - Python None is the value None below, and NoDict where the value is    *)
(*    modelled by a record (a dict, a frame).                              *)
(*  - A Python float is Float(n): time values count hundredths of a        *)
(*    second (2.0 s is 200), coordinates count 1/240 of a degree           *)
(*    (41.5 degrees is 9960), so that every value the code computes on     *)
(*    the inputs used here is an integer.                                  *)
(*  - A dict with optional keys is a record with every key, an absent      *)
(*    key holding None (dict.get gives None for both).                     *)
(*  - An operator that models a Hub coroutine takes and returns a          *)
(*    context cx = [hub |-> the Hub's fields, sent |-> the messages the    *)
(*    step has pushed so far], so that handlers compose them as the code   *)
(*    does.                                                                *)
(*  - A frame of the API connection is a record of its tags; a handler     *)
(*    takes the context, last_emit and the frame.                          *)
(*                                                                         *)
(* Specifications.                                                         *)
(*  - Spec: emit_path calls, the clock and one subscriber's socket.        *)
(*  - SpecBurst: 128 accepted emit_path calls in one instant, then Spec's  *)
(*    calls.                                                               *)
(*  - SpecPresence: set_station_origin and update_station_presence calls.  *)
(*  - SpecApi: frames read by n3fjp_api_client, the clock and one          *)
(*    subscriber's socket.                                                 *)
(*  - SpecWire: frames read by n3fjp_api_client and lines read by         *)
(*    n3fjp_status_client, with the QRZ lookup, and the clock.             *)
(*  - SpecGrid: latlon_from_maidenhead and maidenhead_from_latlon on a     *)
(*    set of locators.                                                     *)
(*  - SpecClient: one connection supervisor from startup_event to          *)
(*    shutdown_event, its socket and its heartbeat, a peer that closes or  *)
(*    is lost, and one subscriber; SpecClientLive adds the fairness of     *)
(*    the event loop.                                                      *)
(*  - SpecPair: both supervisors on one event loop, their connections      *)
(*    failing independently, a contact and one subscriber.                 *)
(*  - SpecStations: set_station_origin and update_station_presence calls   *)
(*    with names that differ in case and in blanks.                        *)
(*  - SpecPipe: parse_station_status_payload on pipe-delimited lines.    *)
(*  - SpecQrz: concurrent calls of QRZClient.lookup, the answers of QRZ    *)
(*    and the clock.                                                       *)
(***************************************************************************)
EXTENDS Integers, Sequences, FiniteSets, TLC

VARIABLES
    hub,        \* the fields of the single Hub instance
    last_emit,  \* n3fjp_api_client's local variable last_emit
    clock,      \* time.time(), in hundredths of a second
    broken,     \* the subscribers whose socket is gone: send_json raises
    cfg,        \* the configuration read at start-up (allow-lists, section mode)
    sent,       \* history: the messages pushed by the last step, in order
    op,         \* history: the call made by the last step and its arguments
    hist,       \* history: what has been broadcast since start-up
    task,       \* a connection supervisor task: where it is, its socket, its sub-task
    other,      \* the second supervisor task, while the event loop runs the first
    qrz         \* the QRZClient instance and the lookup calls that are in progress

vars == <<hub, last_emit, clock, broken, cfg, sent, op, hist, task, other, qrz>>

-----------------------------------------------------------------------------
(* Values *)

None == <<"None">>

\* None where a dict is expected (an empty dict is as falsy as None)
NoDict == [none |-> TRUE]

Float(n) == <<"float", n>>
Num(f) == f[2]
IsFloat(v) == Len(v) = 2 /\ v[1] = "float"

\* Python truthiness of a str or None
Truthy(s) == s # None /\ s # << >>

\* (a or b) on values that are str or None
Or(a, b) == IF Truthy(a) THEN a ELSE b

LowerAZ == <<"a","b","c","d","e","f","g","h","i","j","k","l","m",
             "n","o","p","q","r","s","t","u","v","w","x","y","z">>
UpperAZ == <<"A","B","C","D","E","F","G","H","I","J","K","L","M",
             "N","O","P","Q","R","S","T","U","V","W","X","Y","Z">>
Digits == <<"0","1","2","3","4","5","6","7","8","9">>

InSeq(c, s) == \E i \in 1..Len(s) : s[i] = c
IndexOf(c, s) == CHOOSE i \in 1..Len(s) : s[i] = c

UpperChar(c) == IF InSeq(c, LowerAZ) THEN UpperAZ[IndexOf(c, LowerAZ)] ELSE c

\* str.upper()
Upper(s) == [i \in 1..Len(s) |-> UpperChar(s[i])]

IsSpace(c) == c \in {" ", "\t"}
IsAlnum(c) == InSeq(c, LowerAZ) \/ InSeq(c, UpperAZ) \/ InSeq(c, Digits)

RECURSIVE LStrip(_)
LStrip(s) == IF s # << >> /\ IsSpace(Head(s)) THEN LStrip(Tail(s)) ELSE s

RECURSIVE RStrip(_)
RStrip(s) ==
    IF s # << >> /\ IsSpace(s[Len(s)]) THEN RStrip(SubSeq(s, 1, Len(s) - 1)) ELSE s

\* str.strip()
Strip(s) == RStrip(LStrip(s))

\* re.sub(r"\s+", " ", s)
RECURSIVE CollapseSpace(_)
CollapseSpace(s) ==
    IF s = << >> THEN << >>
    ELSE IF IsSpace(Head(s))
         THEN <<" ">> \o CollapseSpace(LStrip(s))
         ELSE <<Head(s)>> \o CollapseSpace(Tail(s))

SeqToSet(s) == {s[i] : i \in 1..Len(s)}

\* deque(maxlen=n).append(x)
DequeAppend(q, x, maxlen) ==
    IF Len(q) >= maxlen THEN Append(Tail(q), x) ELSE Append(q, x)


-----------------------------------------------------------------------------
(* Program constants *)

\* should_draw: "now - ts < 2.0", in hundredths of a second
DEDUP_WINDOW == 200
\* should_draw: "now - self.recent_draw[0][3] > 3.0"
DEDUP_PURGE == 300
\* n3fjp_api_client: "now - last_emit > 0.01"
EMIT_GAP == 1
\* Hub.__init__: deque(maxlen=128), deque(maxlen=150)
RECENT_DRAW_MAXLEN == 128
RECENT_PATHS_MAXLEN == 150
\* Hub.__init__: recent_raw, deque(maxlen=100)
RECENT_RAW_MAXLEN == 100
\* TTL_SECONDS = cfg_get("TTL_SECONDS", 600)
TTL_SECONDS == 600

\* coordinates count 1/240 of a degree
DEG == 24 * 10

-----------------------------------------------------------------------------
(* Grid math *)

Raise == <<"raise">>

\* seq[i] of Python, i counted from 0, a negative i counted from the end
PyIndexOk(s, i) == (0 <= i /\ i < Len(s)) \/ (i < 0 /\ 0 - i <= Len(s))
PyIndex(s, i) == IF i >= 0 THEN s[i + 1] ELSE s[Len(s) + i + 1]

\* a locator whose subsquare is as wide in latitude as in longitude
maidenhead_from_latlon_wide(lat, lon) ==
    LET lo == lon + 180 * DEG
        la == lat + 90 * DEG
    IN  <<PyIndex(UpperAZ, lo \div (20 * DEG)), PyIndex(UpperAZ, la \div (10 * DEG)),
          PyIndex(Digits, (lo % (20 * DEG)) \div (2 * DEG)),
          PyIndex(Digits, (la % (10 * DEG)) \div DEG),
          PyIndex(LowerAZ, (lo % (2 * DEG)) \div (DEG \div 12)),
          PyIndex(LowerAZ, (la % DEG) \div (DEG \div 12))>>

\* maidenhead_from_latlon(lat, lon): the 6-character locator, or Raise for
\* the IndexError of a letter index outside the alphabet
maidenhead_from_latlon(lat, lon) ==
    LET lo == lon + 180 * DEG
        la == lat + 90 * DEG
        f1 == lo \div (20 * DEG)
        f2 == la \div (10 * DEG)
        r1 == (lo % (20 * DEG)) \div (2 * DEG)
        r2 == (la % (10 * DEG)) \div DEG
        \* ((lon % 2) * 60) // 5 : 5 minutes are DEG / 12
        s1 == (lo % (2 * DEG)) \div (DEG \div 12)
        \* ((lat % 1) * 60) // 2.5 : 2.5 minutes are DEG / 24
        s2 == (la % DEG) \div (DEG \div 24)
    IN  IF PyIndexOk(UpperAZ, f1) /\ PyIndexOk(UpperAZ, f2)
        THEN <<PyIndex(UpperAZ, f1), PyIndex(UpperAZ, f2),
               PyIndex(Digits, r1), PyIndex(Digits, r2),
               PyIndex(LowerAZ, s1), PyIndex(LowerAZ, s2)>>
        ELSE Raise

\* "try: g = maidenhead_from_latlon(lat, lon) except Exception: g = None",
\* on values that are a float or None (None raises a TypeError)
GridOrNone(lat, lon) ==
    IF lat = None \/ lon = None THEN None
    ELSE LET g == maidenhead_from_latlon(Num(lat), Num(lon))
         IN  IF g = Raise THEN None ELSE g

-----------------------------------------------------------------------------
(* Country keys *)

\* re.sub(r"[^0-9A-Za-z]+", " ", s)
RECURSIVE CollapseNonAlnum(_)
CollapseNonAlnum(s) ==
    IF s = << >> THEN << >>
    ELSE IF ~IsAlnum(Head(s))
         THEN LET RECURSIVE Skip(_)
                  Skip(t) == IF t # << >> /\ ~IsAlnum(Head(t)) THEN Skip(Tail(t)) ELSE t
              IN  <<" ">> \o CollapseNonAlnum(Skip(s))
         ELSE <<Head(s)>> \o CollapseNonAlnum(Tail(s))

\* canonical_country_key (the inputs are ASCII: NFD and the removal of
\* combining marks leave them as they are)
canonical_country_key(name) ==
    IF ~Truthy(name) THEN None
    ELSE LET normalized == Upper(Strip(CollapseNonAlnum(name)))
         IN  IF normalized = << >> THEN None ELSE normalized

\* The reference data loaded at start-up: one country, with its ISO code
\* as an alias.
k_CANADA == <<"C","A","N","A","D","A">>
k_CA == <<"C","A">>
COUNTRY_CENTROIDS == (k_CANADA :> [lat |-> Float(60 * DEG), lon |-> Float(0 - 95 * DEG)])
COUNTRY_ALIAS_INDEX == (k_CA :> k_CANADA) @@ (k_CANADA :> k_CANADA)

resolve_country_key(name) ==
    LET key == canonical_country_key(name)
    IN  IF key = None THEN None
        ELSE IF key \in DOMAIN COUNTRY_CENTROIDS THEN key
        ELSE IF key \in DOMAIN COUNTRY_ALIAS_INDEX THEN COUNTRY_ALIAS_INDEX[key]
        ELSE key

\* a key that keeps the case of the name
canonical_station_key_exact(name) ==
    IF name = None THEN None
    ELSE LET cleaned == Strip(CollapseSpace(name))
         IN  IF cleaned = << >> THEN None ELSE cleaned

\* canonical_station_key
canonical_station_key(name) ==
    IF name = None THEN None
    ELSE LET cleaned == Strip(CollapseSpace(name))
         IN  IF cleaned = << >> THEN None ELSE Upper(cleaned)


-----------------------------------------------------------------------------
(* The Hub *)

NoOrigin == [lat |-> None, lon |-> None, grid |-> None]

MetaKeys == {"call", "band", "mode", "section", "operator", "country", "station"}
NoMeta == [k \in MetaKeys |-> None]

PresenceKeys == {"call", "operator", "band", "mode", "status", "section", "country", "message"}
NoPresence == [k \in PresenceKeys |-> None]

\* a station_origins entry holding only a name
NewEntry(name) ==
    [name |-> name, lat |-> None, lon |-> None, grid |-> None,
     call |-> None, operator |-> None, band |-> None, mode |-> None,
     status |-> None, section |-> None, country |-> None, message |-> None,
     sources |-> {}, last_source |-> None, last_seen |-> None]

DefaultPrimary == <<"P","r","i","m","a","r","y"," ","S","t","a","t","i","o","n">>

\* Hub.__init__ before _preload_station_origins
NewHub(primary_station_name) ==
    [clients |-> {},
     origin |-> NoOrigin,
     primary_station_name |->
        LET n == Strip(Or(primary_station_name, DefaultPrimary))
        IN  Or(n, DefaultPrimary),
     state |-> [connected |-> FALSE, last_connect_ts |-> None,
                last_disconnect_ts |-> None, last_event_ts |-> None,
                last_error |-> None, apiver |-> None, program |-> None,
                last_raw |-> NoDict, connections |-> << >>],
     recent_raw |-> << >>,
     recent_draw |-> << >>,
     recent_paths |-> << >>,
     next_path_id |-> 1,
     pending_meta |-> << >>,
     operators_seen |-> {},
     sections_worked |-> {},
     countries_worked |-> {},
     station_origins |-> << >>,
     connection_states |-> << >>,
     metrics |-> [frames_parsed_total |-> 0, paths_drawn_total |-> 0,
                  ws_clients_gauge |-> 0, sections_worked_total |-> 0,
                  countries_worked_total |-> 0]]

\* Hub.disconnect
disconnect(h, ws) ==
    LET cl == h.clients \ {ws}
    IN  [h EXCEPT !.clients = cl, !.metrics.ws_clients_gauge = Cardinality(cl)]

RECURSIVE DisconnectAll(_, _)
DisconnectAll(h, dead) ==
    IF dead = {} THEN h
    ELSE LET ws == CHOOSE w \in dead : TRUE
         IN  DisconnectAll(disconnect(h, ws), dead \ {ws})

\* Hub.broadcast: the payload goes to every client of the set as it is when
\* the call starts; a client whose send raises is disconnected afterwards
broadcast(cx, type, data) ==
    LET targets == cx.hub.clients
        dead == targets \cap broken
    IN  [hub |-> DisconnectAll(cx.hub, dead),
         sent |-> Append(cx.sent, [type |-> type, data |-> data, to |-> targets \ dead,
                                   bcast |-> TRUE])]

\* ws.send_json to one subscriber
send_json(cx, ws, type, data) ==
    [cx EXCEPT !.sent = Append(@, [type |-> type, data |-> data, to |-> {ws},
                                   bcast |-> FALSE])]

\* Hub.origin_payload
origin_payload(h) ==
    [lat |-> h.origin.lat, lon |-> h.origin.lon, grid |-> h.origin.grid,
     name |-> h.primary_station_name]

\* Hub.station_origin_entries: the entries, without their order
station_origin_entries(h) == {h.station_origins[k] : k \in DOMAIN h.station_origins}

\* Hub.compose_status
compose_status(h) ==
    [state |-> h.state,
     origin |-> h.origin,
     primary_station_name |-> h.primary_station_name,
     station_origins |-> station_origin_entries(h),
     operators |-> h.operators_seen,
     sections_worked |-> h.sections_worked,
     countries_worked |-> h.countries_worked,
     metrics |-> h.metrics,
     prefer_section |-> cfg.prefer_section,
     ttl_seconds |-> TTL_SECONDS]

broadcast_status(cx) == broadcast(cx, "status", compose_status(cx.hub))

\* the entry that dict.setdefault finds or makes
ConnectionEntry(h, name, port) ==
    IF name \in DOMAIN h.connection_states THEN h.connection_states[name]
    ELSE [connected |-> FALSE, last_connect_ts |-> None, last_disconnect_ts |-> None,
          last_error |-> None, port |-> port]

\* a marking that records no time of disconnect
ConnectionMarked_no_time(entry, connected, port, error) ==
    LET e1 == IF port # None THEN [entry EXCEPT !.port = port] ELSE entry
    IN  IF connected
        THEN [e1 EXCEPT !.last_connect_ts = IF ~e1.connected THEN Float(clock) ELSE @,
                        !.connected = TRUE,
                        !.last_error = None]
        ELSE [e1 EXCEPT !.connected = FALSE,
                        !.last_error = IF Truthy(error) THEN error ELSE @]

\* the entry after "if port is not None" and "if connected: ... else: ..."
ConnectionMarked(entry, connected, port, error) ==
    LET e1 == IF port # None THEN [entry EXCEPT !.port = port] ELSE entry
    IN  IF connected
        THEN [e1 EXCEPT !.last_connect_ts = IF ~e1.connected THEN Float(clock) ELSE @,
                        !.connected = TRUE,
                        !.last_error = None]
        ELSE [e1 EXCEPT !.last_disconnect_ts = IF e1.connected THEN Float(clock) ELSE @,
                        !.connected = FALSE,
                        !.last_error = IF Truthy(error) THEN error ELSE @]

\* a table that holds the entry of the last call alone
ConnectionStates_alone(h, name, entry) == (name :> entry)

\* self.connection_states once the entry that setdefault found or made has
\* been changed in place
ConnectionStates(h, name, entry) == (name :> entry) @@ h.connection_states

\* a global flag that follows the last call
update_connection_state_last_flag(h, name, connected, port, error) ==
    LET e2 == ConnectionMarked(ConnectionEntry(h, name, port), connected, port, error)
        entry == IF Truthy(error) THEN [e2 EXCEPT !.last_error = error] ELSE e2
        states == ConnectionStates(h, name, entry)
    IN  [h EXCEPT
            !.connection_states = states,
            !.state.last_error = IF Truthy(error) THEN error ELSE @,
            !.state.last_connect_ts = IF connected THEN Float(clock) ELSE @,
            !.state.last_disconnect_ts = IF connected THEN @ ELSE Float(clock),
            !.state.connections = states,
            !.state.connected = connected]

\* Hub.update_connection_state
update_connection_state(h, name, connected, port, error) ==
    LET e2 == ConnectionMarked(ConnectionEntry(h, name, port), connected, port, error)
        entry == IF Truthy(error) THEN [e2 EXCEPT !.last_error = error] ELSE e2
        states == ConnectionStates(h, name, entry)
    IN  [h EXCEPT
            !.connection_states = states,
            !.state.last_error = IF Truthy(error) THEN error ELSE @,
            !.state.last_connect_ts = IF connected THEN Float(clock) ELSE @,
            !.state.last_disconnect_ts = IF connected THEN @ ELSE Float(clock),
            !.state.connections = states,
            !.state.connected = \E k \in DOMAIN states : states[k].connected]


-----------------------------------------------------------------------------
(* Hub.should_draw *)

\* the key of a draw: (call or "", band or "", (mode or "").upper())
DrawKey(call, band, mode) == <<Or(call, << >>), Or(band, << >>), Upper(Or(mode, << >>))>>

\* "if BAND_FILTER and key[1] and key[1] not in BAND_FILTER: return False",
\* and the same for MODE_FILTER
Filtered(key) ==
    \/ (cfg.band_filter # {} /\ key[2] # << >> /\ key[2] \notin cfg.band_filter)
    \/ (cfg.mode_filter # {} /\ key[3] # << >> /\ key[3] \notin cfg.mode_filter)

\* "while self.recent_draw and now - self.recent_draw[0][3] > 3.0: popleft()"
RECURSIVE PurgeOld(_, _)
PurgeOld(rd, now) ==
    IF rd # << >> /\ now - Head(rd)[4] > DEDUP_PURGE THEN PurgeOld(Tail(rd), now) ELSE rd

\* a dedup window that is closed at its end: "now - ts <= 2.0"
DedupHit_inclusive(rd, key, now) ==
    \E i \in 1..Len(rd) :
        /\ <<rd[i][1], rd[i][2], rd[i][3]>> = key
        /\ now - rd[i][4] <= DEDUP_WINDOW

\* "for c, b, m, ts in self.recent_draw: if (c, b, m) == key and now - ts < 2.0"
DedupHit(rd, key, now) ==
    \E i \in 1..Len(rd) :
        /\ <<rd[i][1], rd[i][2], rd[i][3]>> = key
        /\ now - rd[i][4] < DEDUP_WINDOW

\* should_draw: [draw |-> the result, recent_draw |-> the deque afterwards]
should_draw(h, call, band, mode) ==
    LET now == clock
        key == DrawKey(call, band, mode)
        purged == PurgeOld(h.recent_draw, now)
    IN  IF Filtered(key) THEN [draw |-> FALSE, recent_draw |-> h.recent_draw]
        ELSE IF DedupHit(purged, key, now) THEN [draw |-> FALSE, recent_draw |-> purged]
        ELSE [draw |-> TRUE,
              recent_draw |-> DequeAppend(purged, <<key[1], key[2], key[3], now>>,
                                          RECENT_DRAW_MAXLEN)]

-----------------------------------------------------------------------------
(* Hub.emit_path *)

\* {k: v for k, v in (meta or {}).items() if v not in (None, "")}
SafeMeta(meta) ==
    IF meta = NoDict THEN NoMeta
    ELSE [k \in MetaKeys |-> IF Truthy(meta[k]) THEN meta[k] ELSE None]

\* a check of the latitude alone
HasCoords_lat(p) == p.lat # None

\* the two early returns on a missing coordinate
HasCoords(p) == p.lat # None /\ p.lon # None

\* "to = copy.deepcopy(dest); if to.get('grid') is None: to['grid'] = maidenhead.."
FillGrid(dest) ==
    IF dest.grid = None
    THEN [dest EXCEPT !.grid = GridOrNone(dest.lat, dest.lon)]
    ELSE dest

\* a section announced on every path event that carries one
WorkSection_always(cx, section) ==
    IF Truthy(section)
    THEN LET sw == cx.hub.sections_worked \cup {section}
             c1 == [cx EXCEPT !.hub.sections_worked = sw,
                              !.hub.metrics.sections_worked_total = Cardinality(sw)]
             c2 == broadcast(c1, "section_hit", section)
         IN  broadcast(c2, "sections_worked", c2.hub.sections_worked)
    ELSE cx

\* the section part: a section seen for the first time is added and announced
WorkSection(cx, section) ==
    IF Truthy(section) /\ section \notin cx.hub.sections_worked
    THEN LET sw == cx.hub.sections_worked \cup {section}
             c1 == [cx EXCEPT !.hub.sections_worked = sw,
                              !.hub.metrics.sections_worked_total = Cardinality(sw)]
             c2 == broadcast(c1, "section_hit", section)
         IN  broadcast(c2, "sections_worked", c2.hub.sections_worked)
    ELSE cx

\* the country part, on the resolved country key
WorkCountry(cx, country) ==
    LET key == resolve_country_key(country)
    IN  IF Truthy(country) /\ Truthy(key) /\ key \notin cx.hub.countries_worked
        THEN LET cw == cx.hub.countries_worked \cup {key}
                 c1 == [cx EXCEPT !.hub.countries_worked = cw,
                                  !.hub.metrics.countries_worked_total = Cardinality(cw)]
                 c2 == broadcast(c1, "country_hit", key)
             IN  broadcast(c2, "countries_worked", c2.hub.countries_worked)
        ELSE cx

\* the status broadcast before the path is counted and broadcast
PublishPath_status_first(cx, payload_data) ==
    LET c1 == broadcast_status(cx)
        c2 == [c1 EXCEPT !.hub.state.last_event_ts = payload_data.timestamp,
                         !.hub.metrics.paths_drawn_total = @ + 1]
    IN  broadcast(c2, "path", payload_data)

\* the path broadcast without being counted
PublishPath_uncounted(cx, payload_data) ==
    LET c1 == [cx EXCEPT !.hub.state.last_event_ts = payload_data.timestamp]
        c2 == broadcast(c1, "path", payload_data)
    IN  broadcast_status(c2)

\* the path is counted, then broadcast, then the status is broadcast
PublishPath(cx, payload_data) ==
    LET c1 == [cx EXCEPT !.hub.state.last_event_ts = payload_data.timestamp,
                         !.hub.metrics.paths_drawn_total = @ + 1]
        c2 == broadcast(c1, "path", payload_data)
    IN  broadcast_status(c2)

emit_path(cx, dest, meta, ttl, origin_override) ==
    IF dest = NoDict THEN cx
    ELSE
    LET origin == IF origin_override = NoDict THEN cx.hub.origin ELSE origin_override
    IN  IF ~HasCoords(origin) THEN cx
        ELSE IF ~HasCoords(dest) THEN cx
        ELSE
        LET safe_meta == SafeMeta(meta)
            \* "ttl or TTL_SECONDS": ttl is an int, 0 standing for None too
            ttl_val == IF ttl = 0 THEN TTL_SECONDS ELSE ttl
            sd == should_draw(cx.hub, safe_meta.call, safe_meta.band, safe_meta.mode)
            c0 == [cx EXCEPT !.hub.recent_draw = sd.recent_draw]
        IN  IF ~sd.draw THEN c0
            ELSE
            LET to == FillGrid(dest)
                path_id == c0.hub.next_path_id
                c1 == [c0 EXCEPT !.hub.next_path_id = @ + 1]
                timestamp == Float(clock)
                payload_data == [id |-> path_id, from |-> origin, to |-> to,
                                 meta |-> safe_meta, ttl |-> ttl_val,
                                 timestamp |-> timestamp]
                c2 == PublishPath(c1, payload_data)
                c3 == WorkSection(c2, safe_meta.section)
                c4 == WorkCountry(c3, safe_meta.country)
            IN  [c4 EXCEPT !.hub.recent_paths =
                    DequeAppend(@, [id |-> path_id, timestamp |-> timestamp,
                                    meta |-> safe_meta, from |-> origin, to |-> to],
                                RECENT_PATHS_MAXLEN)]


-----------------------------------------------------------------------------
(* Station origins and presence *)

\* Hub._safe_station_origin on {"name": name, **location}: NoDict, or the
\* payload [lat, lon, grid, name]
safe_station_origin(name, data) ==
    IF data = NoDict THEN NoDict
    ELSE IF data.lat = None \/ data.lon = None THEN NoDict
    ELSE [lat |-> data.lat, lon |-> data.lon,
          grid |-> IF Truthy(data.grid) THEN Upper(data.grid)
                   ELSE GridOrNone(data.lat, data.lon),
          name |-> IF Truthy(name) THEN name ELSE None]

\* "for key in ('lat', 'lon', 'grid'): if new.get(key) is not None and
\*  entry.get(key) != new.get(key): entry[key] = new.get(key)"
MergeLocation(entry, new) ==
    [entry EXCEPT !.lat = IF new.lat # None THEN new.lat ELSE @,
                  !.lon = IF new.lon # None THEN new.lon ELSE @,
                  !.grid = IF new.grid # None THEN new.grid ELSE @]

\* the same loop over the presence keys of meta
MergeMeta(entry, meta) ==
    [k \in DOMAIN entry |->
        IF k \in PresenceKeys /\ meta[k] # None THEN meta[k] ELSE entry[k]]

\* the "if source:" block
MergeSource(entry, source) ==
    [entry EXCEPT !.sources = @ \cup {source}, !.last_source = source]

PutStation(h, canon, entry) ==
    [h EXCEPT !.station_origins =
        (canon :> entry) @@ [k \in DOMAIN @ \ {canon} |-> @[k]]]

\* "self.origin = {k: entry.get(k) for k in ('lat', 'lon', 'grid')}"
MirrorOrigin(h, entry) ==
    [h EXCEPT !.origin = [lat |-> entry.lat, lon |-> entry.lon, grid |-> entry.grid]]

\* Hub.set_station_origin
set_station_origin(cx, name, origin) ==
    LET safe == safe_station_origin(name, origin)
        canon == canonical_station_key(name)
    IN  IF ~Truthy(name) \/ origin = NoDict THEN cx
        ELSE IF safe = NoDict THEN cx
        ELSE IF canon = None THEN cx
        ELSE
        LET known == canon \in DOMAIN cx.hub.station_origins
            entry0 == IF known THEN cx.hub.station_origins[canon] ELSE NewEntry(safe.name)
            entry1 == MergeLocation(entry0, safe)
            entry == [entry1 EXCEPT !.name = safe.name]
            changed == ~known \/ entry # entry0
            h1 == PutStation(cx.hub, canon, entry)
            c1 == [cx EXCEPT !.hub = h1]
        IN  IF ~changed THEN c1
            ELSE
            LET c2 == IF canonical_station_key(h1.primary_station_name) = canon
                      THEN LET h2 == MirrorOrigin(h1, entry)
                           IN  broadcast([c1 EXCEPT !.hub = h2], "origin", origin_payload(h2))
                      ELSE c1
                c3 == broadcast(c2, "station_origin", entry)
            IN  broadcast_status(c3)

\* what update_station_presence counts as a change: a difference in the
\* location, in the presence keys, in the sources or in last_source
PresenceChanged(before, after) ==
    \/ \E k \in {"lat", "lon", "grid"} \cup PresenceKeys : before[k] # after[k]
    \/ before.sources # after.sources
    \/ before.last_source # after.last_source

\* Hub.update_station_presence
update_station_presence(cx, name, meta, location, source, force_broadcast) ==
    LET canon == canonical_station_key(name)
    IN  IF ~Truthy(name) THEN cx
        ELSE IF canon = None THEN cx
        ELSE
        LET known == canon \in DOMAIN cx.hub.station_origins
            entry0 == IF known THEN cx.hub.station_origins[canon] ELSE NewEntry(name)
            entry1 == [entry0 EXCEPT !.name = name]
            loc_payload == IF location # NoDict THEN safe_station_origin(name, location)
                           ELSE NoDict
            entry2 == IF loc_payload # NoDict THEN MergeLocation(entry1, loc_payload)
                      ELSE entry1
            entry3 == IF meta # NoDict THEN MergeMeta(entry2, meta) ELSE entry2
            entry4 == IF Truthy(source) THEN MergeSource(entry3, source) ELSE entry3
            changed == PresenceChanged(entry1, entry4)
            entry == [entry4 EXCEPT !.last_seen = Float(clock)]
            c1 == [cx EXCEPT !.hub = PutStation(cx.hub, canon, entry)]
        IN  IF changed \/ force_broadcast
            THEN broadcast_status(broadcast(c1, "station_origin", entry))
            ELSE c1

\* Hub.get_station_origin
get_station_origin(h, name) ==
    LET canon == IF Truthy(name) THEN canonical_station_key(name) ELSE None
        found == canon # None /\ canon \in DOMAIN h.station_origins
        target == IF found THEN h.station_origins[canon]
                  ELSE IF h.origin.lat # None THEN h.origin
                  ELSE NoDict
    IN  IF target = NoDict THEN NoDict
        ELSE [lat |-> target.lat, lon |-> target.lon, grid |-> target.grid]

-----------------------------------------------------------------------------
(* Helpers of the frame handlers *)

\* A frame is a record: cmd, the name of the command, and the tags the frame
\* carries, each with the text between its opening and its closing tag.

\* tag(text, name): the stripped text of the tag, None when it is absent
tag(rec, name) == IF name \in DOMAIN rec THEN Strip(rec[name]) ELSE None

\* first_tag(text, *names)
RECURSIVE first_tag(_, _)
first_tag(rec, names) ==
    IF names = << >> THEN None
    ELSE LET v == tag(rec, Head(names))
         IN  IF v # None THEN v ELSE first_tag(rec, Tail(names))

STATION_NAME_TAGS ==
    <<"STATIONNAME", "THISSTATIONNAME", "STATION", "STATIONID", "STATION_ID",
      "STATIONCALL", "CLIENTSTATION", "CLIENTNAME", "COMPUTERNAME", "PCNAME",
      "NETWORKSTATION">>

\* extract_station_name
RECURSIVE FirstStationName(_, _)
FirstStationName(rec, names) ==
    IF names = << >> THEN None
    ELSE LET value == tag(rec, Head(names))
         IN  IF Truthy(value) /\ Strip(value) # << >> THEN Strip(value)
             ELSE FirstStationName(rec, Tail(names))

extract_station_name(rec) == FirstStationName(rec, STATION_NAME_TAGS)

IsDigits(s) == \A i \in 1..Len(s) : InSeq(s[i], Digits)

RECURSIVE DigitsValue(_)
DigitsValue(s) ==
    IF s = << >> THEN 0
    ELSE DigitsValue(SubSeq(s, 1, Len(s) - 1)) * 10 + (IndexOf(s[Len(s)], Digits) - 1)

RECURSIVE Pow10(_)
Pow10(n) == IF n = 0 THEN 1 ELSE 10 * Pow10(n - 1)

\* float(s) of a number of degrees written as an optional sign and digits
\* with an optional point, in 1/240 degree; Raise (ValueError) for a text
\* that is no number (exponents, "inf" and "nan" are not among the inputs)
Unsigned(t) == IF t # << >> /\ Head(t) \in {"-", "+"} THEN Tail(t) ELSE t

Dots(u) == {i \in 1..Len(u) : u[i] = "."}

DotAt(u) == IF Dots(u) = {} THEN Len(u) + 1 ELSE CHOOSE i \in Dots(u) : TRUE

FloatValue(whole, frac) ==
    ((DigitsValue(whole) * Pow10(Len(frac)) + DigitsValue(frac)) * DEG)
        \div Pow10(Len(frac))

FloatOf(whole, frac, negative) ==
    IF (whole = << >> /\ frac = << >>) \/ ~IsDigits(whole) \/ ~IsDigits(frac)
    THEN Raise
    ELSE Float(IF negative THEN 0 - FloatValue(whole, frac) ELSE FloatValue(whole, frac))

FloatUnsigned(u, negative) ==
    IF Cardinality(Dots(u)) > 1 THEN Raise
    ELSE FloatOf(SubSeq(u, 1, DotAt(u) - 1), SubSeq(u, DotAt(u) + 1, Len(u)), negative)

FloatStripped(t) == FloatUnsigned(Unsigned(t), t # << >> /\ Head(t) = "-")

float(s) == FloatStripped(Strip(s))

\* a longitude taken with the sign it has on the wire
parse_lon_as_written(s) ==
    IF s = None \/ s = << >> THEN None
    ELSE LET f == float(s)
         IN  IF f = Raise THEN None ELSE f

\* parse_lon_west_positive
parse_lon_west_positive(s) ==
    IF s = None \/ s = << >> THEN None
    ELSE LET f == float(s)
         IN  IF f = Raise THEN None ELSE Float(0 - Num(f))

\* str.lower() of the texts parse_bool knows
Lower(s) ==
    [i \in 1..Len(s) |-> IF InSeq(s[i], UpperAZ) THEN LowerAZ[IndexOf(s[i], UpperAZ)]
                         ELSE s[i]]

\* the values of an Optional[bool] other than None
PyTrue == <<"True">>
PyFalse == <<"False">>

\* parse_bool
parse_bool(value) ==
    IF value = None THEN None
    ELSE LET v == Lower(Strip(value))
         IN  IF v \in {<<"y">>, <<"y","e","s">>, <<"t","r","u","e">>, <<"1">>} THEN PyTrue
             ELSE IF v \in {<<"n">>, <<"n","o">>, <<"f","a","l","s","e">>, <<"0">>}
                  THEN PyFalse
             ELSE None

\* "sub in s" on strings
Contains(s, sub) ==
    \E i \in 1..(Len(s) - Len(sub) + 1) : SubSeq(s, i, i + Len(sub) - 1) = sub

\* latlon_from_maidenhead: the centre of a 6-character locator, the centre
\* of the 2 x 1 degree square of a 4-character one, NoDict for anything else
latlon_from_maidenhead(grid) ==
    IF ~Truthy(grid) THEN NoDict
    ELSE
    LET g == Strip(grid)
    IN  IF Len(g) < 4 THEN NoDict
        ELSE IF ~InSeq(UpperChar(g[1]), UpperAZ) \/ ~InSeq(UpperChar(g[2]), UpperAZ)
                \/ ~InSeq(g[3], Digits) \/ ~InSeq(g[4], Digits) THEN NoDict
        ELSE
        LET lon0 == (IndexOf(UpperChar(g[1]), UpperAZ) - 1) * 20 * DEG - 180 * DEG
                    + (IndexOf(g[3], Digits) - 1) * 2 * DEG
            lat0 == (IndexOf(UpperChar(g[2]), UpperAZ) - 1) * 10 * DEG - 90 * DEG
                    + (IndexOf(g[4], Digits) - 1) * DEG
        IN  IF Len(g) >= 6
            THEN IF ~InSeq(Lower(<<g[5]>>)[1], LowerAZ) \/ ~InSeq(Lower(<<g[6]>>)[1], LowerAZ)
                 THEN NoDict
                 ELSE [lat |-> Float(lat0 + (IndexOf(Lower(<<g[6]>>)[1], LowerAZ) - 1)
                                             * (DEG \div 24) + DEG \div 48),
                       lon |-> Float(lon0 + (IndexOf(Lower(<<g[5]>>)[1], LowerAZ) - 1)
                                             * (DEG \div 12) + DEG \div 24)]
            ELSE [lat |-> Float(lat0 + DEG \div 2), lon |-> Float(lon0 + DEG)]

\* data/centroids/sections.json: one section
SECTION_CENTROIDS ==
    (<<"C","T">> :> [lat |-> Float(41 * DEG + DEG \div 2), lon |-> Float(0 - 73 * DEG)])

\* section_to_latlon
section_to_latlon(section) ==
    IF ~Truthy(section) THEN NoDict
    ELSE LET k == Upper(Strip(section))
         IN  IF k \in DOMAIN SECTION_CENTROIDS THEN SECTION_CENTROIDS[k] ELSE NoDict

\* country_centroid
country_centroid(name) ==
    LET key == resolve_country_key(name)
    IN  IF ~Truthy(key) THEN NoDict
        ELSE IF key \notin DOMAIN COUNTRY_CENTROIDS THEN NoDict
        ELSE LET info == COUNTRY_CENTROIDS[key]
             IN  IF info.lat = None \/ info.lon = None THEN NoDict
                 ELSE [lat |-> info.lat, lon |-> info.lon,
                       grid |-> GridOrNone(info.lat, info.lon)]

\* QRZClient.lookup: "return None" with no QRZ_USERNAME configured or for a
\* call QRZ has no record of, else what the record gives: [dest, country],
\* dest NoDict or country None when the record lacks it
qrz_lookup(call) ==
    IF ~Truthy(call) THEN NoDict
    ELSE IF call \in DOMAIN cfg.qrz THEN cfg.qrz[call]
    ELSE NoDict

-----------------------------------------------------------------------------
(* The frame handlers of n3fjp_api_client *)

s_api == <<"a","p","i">>
s_USA == <<"U","S","A">>
s_UNITED_STATES == <<"U","N","I","T","E","D"," ","S","T","A","T","E","S">>

\* what the read loop does with every frame before it looks at it
count_frame(cx, rec) ==
    [cx EXCEPT !.hub.metrics.frames_parsed_total = @ + 1,
               !.hub.state.last_raw = rec,
               !.hub.recent_raw = DequeAppend(@, rec, RECENT_RAW_MAXLEN)]

\* the result of a handler: the context, last_emit, the commands written to
\* N3FJP, whether an exception left the read loop, and what the handler
\* resolved (dest, meta, origin; NoDict when it resolved none)
Handled(cx, le, wrote) ==
    [cx |-> cx, last_emit |-> le, wrote |-> wrote, raised |-> FALSE,
     dest |-> NoDict, meta |-> NoDict, origin |-> NoDict]

Raised(cx, le, wrote) == [Handled(cx, le, wrote) EXCEPT !.raised = TRUE]

\* the APIVERRESPONSE branch
apiver_response(cx, le, rec) ==
    Handled(broadcast_status([cx EXCEPT !.hub.state.apiver = tag(rec, "APIVER")]),
            le, << >>)

\* the PROGRAMRESPONSE branch: f"{pgm or ''} {ver or ''}".strip()
program_response(cx, le, rec) ==
    LET pgm == Or(tag(rec, "PGM"), << >>)
        ver == Or(tag(rec, "VER"), << >>)
    IN  Handled(broadcast_status(
                    [cx EXCEPT !.hub.state.program = Strip(pgm \o <<" ">> \o ver)]),
                le, << >>)

\* the OPINFORESPONSE branch
opinfo_response(cx, le, rec) ==
    LET grid == tag(rec, "GRID")
        lat_s == tag(rec, "LAT")
        lon_s == first_tag(rec, <<"LON", "LONG">>)
        by_coords == ~Truthy(grid) /\ Truthy(lat_s) /\ Truthy(lon_s)
        lat == float(lat_s)
        lon == parse_lon_west_positive(lon_s)
        g == maidenhead_from_latlon(Num(lat), Num(lon))
        origin == IF Truthy(grid)
                  THEN LET o == latlon_from_maidenhead(grid)
                       IN  IF o # NoDict THEN [lat |-> o.lat, lon |-> o.lon, grid |-> grid]
                           ELSE NoDict
                  ELSE IF by_coords /\ lon # None
                       THEN [lat |-> lat, lon |-> lon, grid |-> g]
                  ELSE NoDict
        station_name == extract_station_name(rec)
        c1 == IF Truthy(station_name)
              THEN [cx EXCEPT !.hub.primary_station_name = station_name] ELSE cx
        target_station == Or(station_name, c1.hub.primary_station_name)
    IN  IF by_coords /\ (lat = Raise \/ (lon # None /\ g = Raise)) THEN Raised(cx, le, << >>)
        ELSE IF origin = NoDict THEN Handled(c1, le, << >>)
        ELSE IF Truthy(target_station)
             THEN Handled(set_station_origin(c1, target_station, origin), le, << >>)
        ELSE LET c2 == [c1 EXCEPT !.hub.origin = origin]
             IN  Handled(broadcast_status(broadcast(c2, "origin", origin_payload(c2.hub))),
                         le, << >>)

\* the commands written to N3FJP
CmdOpinfo == [cmd |-> "OPINFO"]
CmdLookup(call) == [cmd |-> "COUNTRYLISTLOOKUP", CALL |-> call]

\* dict.pop(key, None)
Pop(d, key) == [k \in DOMAIN d \ {key} |-> d[k]]

\* ENTEREVENT: the fields read from the frame
EnterFields(rec) ==
    [call |-> tag(rec, "CALL"),
     band |-> tag(rec, "BAND"),
     mode |-> Upper(Or(Or(tag(rec, "MODE"), tag(rec, "MODETEST")), << >>)),
     sect |-> Upper(Or(first_tag(rec, <<"SECTION", "ARRL_SECT">>), << >>)),
     oper |-> Or(Or(tag(rec, "OPERATOR"), tag(rec, "MYCALL")), << >>),
     country |-> Or(tag(rec, "COUNTRY"), << >>),
     station_name |-> extract_station_name(rec),
     tlat_s |-> tag(rec, "LAT"),
     tlon_s |-> first_tag(rec, <<"LON", "LONG">>),
     dx |-> parse_bool(tag(rec, "DX"))]

\* ENTEREVENT: a new operator joins the roster, which is broadcast
EnterOperator(cx, f) ==
    IF f.oper # << >> /\ f.oper \notin cx.hub.operators_seen
    THEN broadcast([cx EXCEPT !.hub.operators_seen = @ \cup {f.oper}], "operators",
                   cx.hub.operators_seen \cup {f.oper})
    ELSE cx

\* ENTEREVENT: the presence of the station that logged the contact
EnterPresence(cx, f) ==
    IF Truthy(f.station_name)
    THEN update_station_presence(cx, f.station_name,
             [NoPresence EXCEPT !.call = f.call, !.band = f.band, !.mode = f.mode,
                                !.section = f.sect, !.operator = f.oper,
                                !.country = Or(f.country, None)],
             NoDict, s_api, FALSE)
    ELSE cx

\* ENTEREVENT: base_meta
EnterMeta(f) ==
    [NoMeta EXCEPT !.call = f.call, !.band = f.band, !.mode = f.mode,
                   !.section = f.sect, !.operator = f.oper,
                   !.station = Or(f.station_name, None),
                   !.country = Or(f.country, None)]

\* ENTEREVENT: origin_snapshot, NoDict for None
EnterOrigin(h, f) ==
    LET station_origin == get_station_origin(h, f.station_name)
    IN  IF station_origin = NoDict /\ h.origin.lat # None THEN h.origin
        ELSE station_origin

\* the tiers of the destination, each a step from [dest, meta, raised]:
\* the section centroid when sections are preferred
TierSection(f, t) ==
    IF cfg.prefer_section /\ f.sect # << >> /\ section_to_latlon(f.sect) # NoDict
    THEN [t EXCEPT !.dest = [lat |-> section_to_latlon(f.sect).lat,
                             lon |-> section_to_latlon(f.sect).lon, grid |-> None]]
    ELSE t

\* the coordinates the frame carries; float(tlat_s) is not guarded
TierEmbedded(f, t) ==
    IF t.dest = NoDict /\ Truthy(f.tlat_s) /\ Truthy(f.tlon_s)
    THEN IF float(f.tlat_s) = Raise THEN [t EXCEPT !.raised = TRUE]
         ELSE IF parse_lon_west_positive(f.tlon_s) # None
              THEN [t EXCEPT !.dest = [lat |-> float(f.tlat_s),
                                       lon |-> parse_lon_west_positive(f.tlon_s),
                                       grid |-> None]]
         ELSE t
    ELSE t

\* dx_flag: the DX tag, or a country that is not the United States
DxFlag(f) ==
    IF f.dx = None
    THEN /\ f.country # << >>
         /\ ~Contains(Upper(f.country), s_USA)
         /\ ~Contains(Upper(f.country), s_UNITED_STATES)
    ELSE f.dx = PyTrue

\* what a QRZ result gives: its country, its dest or the country's centroid
QrzApply(t, qrz_result) ==
    IF qrz_result = NoDict THEN t
    ELSE LET meta == IF Truthy(qrz_result.country)
                     THEN [t.meta EXCEPT !.country = qrz_result.country] ELSE t.meta
         IN  [t EXCEPT !.meta = meta,
                       !.dest = IF qrz_result.dest # NoDict /\ HasCoords(qrz_result.dest)
                                THEN qrz_result.dest
                                ELSE country_centroid(Or(meta.country, qrz_result.country))]

TierQrz(f, t) ==
    IF ~t.raised /\ t.dest = NoDict /\ Truthy(f.call) /\ DxFlag(f)
    THEN QrzApply(t, qrz_lookup(f.call))
    ELSE t

\* the centroid of the country
TierCountry(t) ==
    IF ~t.raised /\ t.dest = NoDict /\ Truthy(t.meta.country)
    THEN [t EXCEPT !.dest = country_centroid(t.meta.country)]
    ELSE t

\* the tiers with the centroid of the country tried first
EnterResolve_country_first(f) ==
    TierQrz(f, TierEmbedded(f, TierSection(f, TierCountry(
        [dest |-> NoDict, meta |-> EnterMeta(f), raised |-> FALSE]))))

EnterResolve(f) ==
    TierCountry(TierQrz(f, TierEmbedded(f, TierSection(f,
        [dest |-> NoDict, meta |-> EnterMeta(f), raised |-> FALSE]))))

\* ENTEREVENT with a destination: the pending lookup of the call is dropped
\* and emit_path is called unless last_emit is less than 0.01 s old
EnterEmit(cx, le, f, t, origin_snapshot) ==
    LET c3 == [cx EXCEPT !.hub.pending_meta = Pop(@, Upper(Or(f.call, << >>)))]
        now == clock
    IN  [Handled(IF now - le > EMIT_GAP
                 THEN emit_path(c3, t.dest, t.meta, TTL_SECONDS, origin_snapshot)
                 ELSE c3,
                 IF now - le > EMIT_GAP THEN now ELSE le, <<CmdOpinfo>>)
         EXCEPT !.dest = t.dest, !.meta = t.meta, !.origin = origin_snapshot]

\* ENTEREVENT without one: the lookup is noted and asked for
EnterPending(cx, le, f, t, origin_snapshot) ==
    IF Truthy(f.call)
    THEN Handled([cx EXCEPT !.hub.pending_meta =
                     (Upper(Or(f.call, << >>)) :>
                         [meta |-> t.meta,
                          origin |-> IF origin_snapshot # NoDict THEN origin_snapshot
                                     ELSE cx.hub.origin])
                     @@ Pop(@, Upper(Or(f.call, << >>)))],
                 le, <<CmdOpinfo, CmdLookup(f.call)>>)
    ELSE Handled(cx, le, <<CmdOpinfo>>)

EnterFinish(cx, le, f, t) ==
    IF t.raised THEN Raised(cx, le, <<CmdOpinfo>>)
    ELSE IF t.dest # NoDict THEN EnterEmit(cx, le, f, t, EnterOrigin(cx.hub, f))
    ELSE EnterPending(cx, le, f, t, EnterOrigin(cx.hub, f))

\* the ENTEREVENT branch
enter_event(cx, le, rec) ==
    EnterFinish(EnterPresence(EnterOperator(cx, EnterFields(rec)), EnterFields(rec)),
                le, EnterFields(rec), EnterResolve(EnterFields(rec)))

\* the COUNTRYLISTLOOKUPRESPONSE branch, entered when hub.origin["lat"] is
\* not None
lookup_response(cx, le, rec) ==
    LET call == tag(rec, "CALL")
        tlat_s == tag(rec, "LAT")
        tlon_s == first_tag(rec, <<"LON", "LONG">>)
        coords == Truthy(tlat_s) /\ Truthy(tlon_s)
        lat == float(tlat_s)
        lon == parse_lon_west_positive(tlon_s)
        g == maidenhead_from_latlon(Num(lat), Num(lon))
        key == Upper(Or(call, << >>))
        known == key \in DOMAIN cx.hub.pending_meta
        c1 == [cx EXCEPT !.hub.pending_meta = Pop(@, key)]
        meta0 == IF known THEN cx.hub.pending_meta[key].meta
                 ELSE [NoMeta EXCEPT !.call = call]
        origin_override == IF known THEN cx.hub.pending_meta[key].origin ELSE NoDict
        country_name == Or(tag(rec, "COUNTRY"), tag(rec, "COUNTRY_NAME"))
        meta_payload == IF Truthy(country_name) /\ ~Truthy(meta0.country)
                        THEN [meta0 EXCEPT !.country = country_name] ELSE meta0
    IN  IF ~coords THEN Handled(cx, le, << >>)
        ELSE IF lat = Raise THEN Raised(cx, le, << >>)
        ELSE IF lon = None THEN Handled(cx, le, << >>)
        ELSE IF g = Raise THEN Raised(cx, le, << >>)
        ELSE LET dest == [lat |-> lat, lon |-> lon, grid |-> g]
             IN  [Handled(emit_path(c1, dest, meta_payload, TTL_SECONDS, origin_override),
                          le, << >>)
                  EXCEPT !.dest = dest, !.meta = meta_payload, !.origin = origin_override]

\* the chain of "if ... in recU" of the read loop: the first branch that
\* matches handles the frame, a frame that matches none is dropped
handle_frame(cx, le, rec) ==
    IF rec.cmd = "APIVERRESPONSE" THEN apiver_response(cx, le, rec)
    ELSE IF rec.cmd = "PROGRAMRESPONSE" THEN program_response(cx, le, rec)
    ELSE IF rec.cmd = "OPINFORESPONSE" THEN opinfo_response(cx, le, rec)
    ELSE IF rec.cmd = "ENTEREVENT" THEN enter_event(cx, le, rec)
    ELSE IF rec.cmd = "COUNTRYLISTLOOKUPRESPONSE" /\ cx.hub.origin.lat # None
         THEN lookup_response(cx, le, rec)
    ELSE Handled(cx, le, << >>)

-----------------------------------------------------------------------------
(* Hub.connect *)

\* a join that replays the last path event to the subscriber
connect_replay(cx, ws) ==
    LET cl == cx.hub.clients \cup {ws}
        h == [cx.hub EXCEPT !.clients = cl, !.metrics.ws_clients_gauge = Cardinality(cl)]
        c0 == send_json([cx EXCEPT !.hub = h], ws, "status", compose_status(h))
        c1 == IF h.origin.lat # None THEN send_json(c0, ws, "origin", origin_payload(h))
              ELSE c0
        c2 == IF DOMAIN h.station_origins # {}
              THEN send_json(c1, ws, "station_origins", station_origin_entries(h))
              ELSE c1
        c3 == IF h.operators_seen # {}
              THEN send_json(c2, ws, "operators", h.operators_seen) ELSE c2
        c4 == IF h.sections_worked # {}
              THEN send_json(c3, ws, "sections_worked", h.sections_worked) ELSE c3
        c5 == IF h.countries_worked # {}
              THEN send_json(c4, ws, "countries_worked", h.countries_worked) ELSE c4
    IN  IF h.recent_paths # << >>
        THEN send_json(c5, ws, "path", h.recent_paths[Len(h.recent_paths)]) ELSE c5

\* a join that pushes the worked sets before the roster
connect_sets_first(cx, ws) ==
    LET cl == cx.hub.clients \cup {ws}
        h == [cx.hub EXCEPT !.clients = cl, !.metrics.ws_clients_gauge = Cardinality(cl)]
        c0 == send_json([cx EXCEPT !.hub = h], ws, "status", compose_status(h))
        c1 == IF h.origin.lat # None THEN send_json(c0, ws, "origin", origin_payload(h))
              ELSE c0
        c2 == IF DOMAIN h.station_origins # {}
              THEN send_json(c1, ws, "station_origins", station_origin_entries(h))
              ELSE c1
        c3 == IF h.sections_worked # {}
              THEN send_json(c2, ws, "sections_worked", h.sections_worked) ELSE c2
        c4 == IF h.countries_worked # {}
              THEN send_json(c3, ws, "countries_worked", h.countries_worked) ELSE c3
    IN  IF h.operators_seen # {}
        THEN send_json(c4, ws, "operators", h.operators_seen) ELSE c4

\* each send of the join sequence after the status is made only when what it
\* carries is known or not empty
connect(cx, ws) ==
    LET cl == cx.hub.clients \cup {ws}
        h == [cx.hub EXCEPT !.clients = cl, !.metrics.ws_clients_gauge = Cardinality(cl)]
        c0 == send_json([cx EXCEPT !.hub = h], ws, "status", compose_status(h))
        c1 == IF h.origin.lat # None THEN send_json(c0, ws, "origin", origin_payload(h))
              ELSE c0
        c2 == IF DOMAIN h.station_origins # {}
              THEN send_json(c1, ws, "station_origins", station_origin_entries(h))
              ELSE c1
        c3 == IF h.operators_seen # {}
              THEN send_json(c2, ws, "operators", h.operators_seen) ELSE c2
        c4 == IF h.sections_worked # {}
              THEN send_json(c3, ws, "sections_worked", h.sections_worked) ELSE c3
    IN  IF h.countries_worked # {}
        THEN send_json(c4, ws, "countries_worked", h.countries_worked) ELSE c4


-----------------------------------------------------------------------------
(* Bounds and inputs *)

\* how many times the clock is advanced
MaxTicks == 2
\* how many path events are emitted
MaxPaths == 2

\* the clock advances by 0.01 s or by 1.99 s
TimeSteps == {1, DEDUP_WINDOW - 1}

\* time.time() at start-up: any value larger than the windows
Epoch == DEDUP_PURGE + DEDUP_PURGE

Sockets == {"ws1", "ws2"}
\* the subscribers of the specifications that call the Hub's methods directly
OneSocket == {"ws1"}

s_W1AW == <<"W","1","A","W">>
s_K1ABC == <<"K","1","A","B","C">>
s_20 == <<"2","0">>
s_40 == <<"4","0">>
s_CW == <<"C","W">>
s_cw == <<"c","w">>
s_PH == <<"P","H">>
s_CT == <<"C","T">>
s_Canada == <<"C","a","n","a","d","a">>
s_Run1 == <<"R","u","n"," ","1">>
s_run1 == <<"r","u","n"," "," ","1">>
s_Run2 == <<"R","u","n"," ","2">>
s_FN31pr == <<"F","N","3","1","p","r">>
s_N1OP == <<"N","1","O","P">>

\* 41.5 N 72.7 W, and 45.0 N 75.5 W
Here == [lat |-> Float(9960), lon |-> Float(0 - 17448), grid |-> None]
There == [lat |-> Float(45 * DEG), lon |-> Float(0 - 18120), grid |-> None]

\* PRIMARY_STATION_NAME
PRIMARY_STATION_NAME == s_Run1

\* the station preset of STATION_LOCATIONS: the primary station at FN31pr
Preset == (canonical_station_key(s_Run1) :>
              [name |-> s_Run1, lat |-> Here.lat, lon |-> Here.lon, grid |-> s_FN31pr])

s_Sable == <<"S","a","b","l","e"," ","I","s","l","a","n","d">>

\* what QRZ answers when an account is configured: a record with
\* coordinates and a country for one call, a record with a country alone for
\* another, a record with a country that has no centroid for a third, no
\* record for any other call
QrzRecords ==
    (s_W1AW :> [dest |-> [lat |-> Float(50 * DEG), lon |-> Float(0 - 100 * DEG),
                          grid |-> None],
                country |-> s_Canada])
    @@ (s_K1ABC :> [dest |-> NoDict, country |-> k_CA])
    @@ (s_N1OP :> [dest |-> NoDict, country |-> s_Sable])

\* the deployments the program is started in: no allow-list, no QRZ account
\* and the primary station preset, or a band and a mode allow-list, section
\* preference, a QRZ account and no preset
Deployments ==
    {[cfg |-> [band_filter |-> {}, mode_filter |-> {}, prefer_section |-> FALSE,
               qrz |-> << >>],
      presets |-> Preset],
     [cfg |-> [band_filter |-> {s_20}, mode_filter |-> {s_CW}, prefer_section |-> TRUE,
               qrz |-> QrzRecords],
      presets |-> << >>]}

Meta(call, band, mode, section, country) ==
    [NoMeta EXCEPT !.call = call, !.band = band, !.mode = mode,
                   !.section = section, !.country = country]

\* the emit_path calls tried, <<dest, meta, origin_override>>: each meta from
\* the Hub's origin, one from the origin of another station, and a
\* destination that is absent or lacks its longitude
M_W1AW == Meta(s_W1AW, s_20, s_CW, s_CT, s_Canada)
M_w1aw == Meta(s_W1AW, s_20, s_cw, s_CT, k_CA)
M_K1ABC == Meta(s_K1ABC, s_40, s_PH, << >>, None)
EmitCalls ==
    {<<Here, M_W1AW, NoDict>>,
     <<Here, M_w1aw, NoDict>>,
     <<Here, M_K1ABC, NoDict>>,
     <<Here, NoDict, NoDict>>,
     <<Here, M_W1AW, There>>,
     <<[Here EXCEPT !.lon = None], M_W1AW, There>>,
     <<NoDict, M_K1ABC, NoDict>>}

-----------------------------------------------------------------------------
(* Initial state *)

\* Hub._preload_station_origins
preload_station_origins(h, initial) ==
    LET Safe(k) == safe_station_origin(initial[k].name, initial[k])
        keys == {k \in DOMAIN initial : Safe(k) # NoDict
                                         /\ canonical_station_key(initial[k].name) # None}
        h1 == [h EXCEPT !.station_origins =
                 [c \in {canonical_station_key(initial[k].name) : k \in keys} |->
                    LET k == CHOOSE k \in keys : canonical_station_key(initial[k].name) = c
                    IN  MergeLocation(NewEntry(Safe(k).name), Safe(k))]]
        prim_key == canonical_station_key(h.primary_station_name)
    IN  IF prim_key # None /\ h.origin.lat = None /\ prim_key \in DOMAIN h1.station_origins
        THEN MirrorOrigin(h1, h1.station_origins[prim_key])
        ELSE h1

\* ticks: the advances of the clock; hits: the first-worked notices broadcast;
\* path_ids: the ids of the path events broadcast; last_draw: for a draw
\* key, the time of the last path event broadcast for it
\* base: the number of path events broadcast before the initial state
\* updates: the calls of set_station_origin and update_station_presence
\* frames: the frames read from the API connection
\* lookups: the calls of QRZClient.lookup
NoHist == [ticks |-> 0, hits |-> << >>, path_ids |-> << >>, last_draw |-> << >>,
           base |-> 0, updates |-> 0, frames |-> 0, lookups |-> 0]

\* a supervisor task: the await it is suspended at (pc), its socket, the
\* connection under the socket (link), its heartbeat sub-task (hb), the
\* bootstrap commands written, the exception on its way out of the inner try
\* (exc), whether shutdown_event has cancelled the task, whether the
\* inner try has been entered since the last connect, and the payload of the
\* status broadcast it is suspended in (snap)
Task(kind, pc) ==
    [kind |-> kind, pc |-> pc, sock |-> "none", link |-> "none", hb |-> "none",
     boot |-> 0, exc |-> None, cancelled |-> FALSE, entered |-> FALSE,
     snap |-> NoDict]

\* before startup_event
NotStarted == Task("none", "idle")

\* QRZClient.__init__: no session, an expiry in the past, a free lock (lock
\* is the coroutine that holds it, or "free"); calls holds the lookup
\* coroutines in progress, waiters the queue of the lock
NewQrz ==
    [session_key |-> None, session_expiry |-> Float(0), lock |-> "free",
     waiters |-> << >>, calls |-> << >>]

Init ==
    /\ \E d \in Deployments :
          /\ cfg = d.cfg
          /\ hub = preload_station_origins(NewHub(PRIMARY_STATION_NAME), d.presets)
    /\ last_emit = 0
    /\ clock = Epoch
    /\ broken = {}
    /\ sent = << >>
    /\ op = [name |-> "init"]
    /\ hist = NoHist
    /\ task = NotStarted
    /\ other = NotStarted
    /\ qrz = NewQrz

-----------------------------------------------------------------------------
(* History *)

IsHit(m) == m.type \in {"section_hit", "country_hit"}
IsPath(m) == m.type = "path"

MapHits(ms) == [i \in 1..Len(ms) |-> <<ms[i].type, ms[i].data>>]
MapIds(ms) == [i \in 1..Len(ms) |-> ms[i].data.id]

PathKey(m) == DrawKey(m.data.meta.call, m.data.meta.band, m.data.meta.mode)

\* the history hst after the messages ms have been pushed at time now
RecordOn(hst, ms, now) ==
    [hst EXCEPT
        !.hits = @ \o MapHits(SelectSeq(ms, IsHit)),
        !.path_ids = @ \o MapIds(SelectSeq(ms, IsPath)),
        !.last_draw = LET ps == SelectSeq(ms, IsPath)
                          keys == {PathKey(ps[i]) : i \in 1..Len(ps)}
                      IN  [k \in keys \cup DOMAIN @ |-> IF k \in keys THEN now ELSE @[k]]]

\* the history after a step that pushed the messages ms
Record(ms) == RecordOn(hist, ms, clock)

\* a step that runs the Hub coroutine f from the context [hub, << >>]
Start == [hub |-> hub, sent |-> << >>]

Finish(cx, call) ==
    /\ hub' = cx.hub
    /\ sent' = cx.sent
    /\ op' = call
    /\ hist' = Record(cx.sent)

-----------------------------------------------------------------------------
(* Steps of the environment *)

Advance(d) ==
    /\ hist.ticks < MaxTicks
    /\ clock' = clock + d
    /\ hist' = [hist EXCEPT !.ticks = @ + 1]
    /\ sent' = << >>
    /\ op' = [name |-> "env"]
    /\ UNCHANGED <<hub, last_emit, broken, cfg, task, other, qrz>>

\* ws_endpoint: a subscriber joins
WsConnect(ws) ==
    /\ ws \notin hub.clients
    /\ LET cx == connect(Start, ws)
       IN  /\ hub' = cx.hub
           /\ sent' = cx.sent
           /\ op' = [name |-> "connect", ws |-> ws]
    /\ UNCHANGED <<last_emit, clock, broken, cfg, hist, task, other, qrz>>

\* ws_endpoint: receive_text raises WebSocketDisconnect
WsDisconnect(ws) ==
    /\ ws \in hub.clients
    /\ hub' = disconnect(hub, ws)
    /\ broken' = broken \ {ws}
    /\ sent' = << >>
    /\ op' = [name |-> "env"]
    /\ UNCHANGED <<last_emit, clock, cfg, hist, task, other, qrz>>

\* a subscriber's socket dies: the next send to it raises
WsBreak(ws) ==
    /\ ws \in hub.clients \ broken
    /\ broken' = broken \cup {ws}
    /\ sent' = << >>
    /\ op' = [name |-> "env"]
    /\ UNCHANGED <<hub, last_emit, clock, cfg, hist, task, other, qrz>>

-----------------------------------------------------------------------------
(* Calls of the Hub's methods *)

\* the time of the last path event broadcast for a draw key, -1 if none
LastDraw(key) == IF key \in DOMAIN hist.last_draw THEN hist.last_draw[key] ELSE 0 - 1

EmitPath(dest, meta, ttl, origin_override) ==
    /\ Len(hist.path_ids) - hist.base < MaxPaths
    /\ Finish(emit_path(Start, dest, meta, ttl, origin_override),
              [name |-> "emit_path",
               coords |-> dest # NoDict /\ HasCoords(dest)
                          /\ HasCoords(IF origin_override = NoDict THEN hub.origin
                                       ELSE origin_override),
               key |-> DrawKey(SafeMeta(meta).call, SafeMeta(meta).band,
                               SafeMeta(meta).mode),
               prev |-> LastDraw(DrawKey(SafeMeta(meta).call, SafeMeta(meta).band,
                                         SafeMeta(meta).mode))])
    /\ UNCHANGED <<last_emit, clock, broken, cfg, task, other, qrz>>

Env(sockets) ==
    \/ \E d \in TimeSteps : Advance(d)
    \/ \E ws \in sockets : WsConnect(ws)
    \/ \E ws \in sockets : WsDisconnect(ws)
    \/ \E ws \in sockets : WsBreak(ws)

Next ==
    \/ Env(OneSocket)
    \/ \E c \in EmitCalls : EmitPath(c[1], c[2], 0, c[3])

Spec == Init /\ [][Next]_vars


-----------------------------------------------------------------------------
(* Calls of set_station_origin and update_station_presence *)

\* how many calls of the two methods are made
MaxUpdates == 2

s_RUN == <<"R","U","N">>
s_status == <<"s","t","a","t","u","s">>

UpdateNames == {s_Run1, s_run1, s_Run2}
M_band == [NoPresence EXCEPT !.band = s_20, !.mode = s_PH]
M_status == [NoPresence EXCEPT !.status = s_RUN]
\* <<meta, location, source, force_broadcast>>
UpdateArgs == {<<NoDict, NoDict, None, FALSE>>,
               <<NoDict, NoDict, None, TRUE>>,
               <<M_band, NoDict, s_api, FALSE>>,
               <<M_band, Here, s_status, FALSE>>,
               <<M_status, NoDict, s_status, FALSE>>}
UpdateLocations == {NoDict, Here}

\* the stored entry of a station name, NoDict if there is none
Stored(h, name) ==
    LET canon == canonical_station_key(name)
    IN  IF canon # None /\ canon \in DOMAIN h.station_origins
        THEN h.station_origins[canon] ELSE NoDict

SetStationOrigin(name, origin) ==
    /\ hist.updates < MaxUpdates
    /\ LET cx == set_station_origin(Start, name, origin)
           call == [name |-> "set_station_origin", station |-> name, meta |-> NoDict,
                    location |-> origin, source |-> None, force |-> FALSE]
       IN  /\ hub' = cx.hub
           /\ sent' = cx.sent
           /\ op' = [call |-> call, name |-> call.name, before |-> Stored(hub, name),
                     repeat |-> op.name = call.name /\ op.call = call]
           /\ hist' = [hist EXCEPT !.updates = @ + 1]
    /\ UNCHANGED <<last_emit, clock, broken, cfg, task, other, qrz>>

UpdateStationPresence(name, meta, location, source, force_broadcast) ==
    /\ hist.updates < MaxUpdates
    /\ LET cx == update_station_presence(Start, name, meta, location, source,
                                         force_broadcast)
           call == [name |-> "update_station_presence", station |-> name, meta |-> meta,
                    location |-> location, source |-> source, force |-> force_broadcast]
       IN  /\ hub' = cx.hub
           /\ sent' = cx.sent
           /\ op' = [call |-> call, name |-> call.name, before |-> Stored(hub, name),
                     repeat |-> op.name = call.name /\ op.call = call]
           /\ hist' = [hist EXCEPT !.updates = @ + 1]
    /\ UNCHANGED <<last_emit, clock, broken, cfg, task, other, qrz>>

NextPresence ==
    \/ Advance(1)
    \/ WsConnect("ws1")
    \/ WsDisconnect("ws1")
    \/ \E name \in UpdateNames, origin \in UpdateLocations : SetStationOrigin(name, origin)
    \/ \E name \in UpdateNames, a \in UpdateArgs :
          UpdateStationPresence(name, a[1], a[2], a[3], a[4])

SpecPresence == Init /\ [][NextPresence]_vars

-----------------------------------------------------------------------------
(* Frames read from the API connection *)

\* how many frames are read
MaxFrames == 2

s_45 == <<"4","5",".","0">>
s_75 == <<"7","5",".","5">>
s_1 == <<"1">>
s_FD == <<"F","D">>

Enter == [cmd |-> "ENTEREVENT"]

\* the frames that arrive: two contacts with embedded coordinates, the first
\* naming its station, its operator, its section and its country; a contact
\* that has only a country; one that has no destination; one logged at a
\* station not heard of before; the responses to the bootstrap commands and
\* to a lookup
ApiFrames ==
    {Enter @@ [CALL |-> s_W1AW, BAND |-> s_20, MODE |-> s_CW, SECTION |-> s_CT,
               COUNTRY |-> s_Canada, OPERATOR |-> s_N1OP, LAT |-> s_45, LON |-> s_75,
               STATIONNAME |-> s_Run1],
     Enter @@ [CALL |-> s_K1ABC, BAND |-> s_20, MODE |-> s_cw, LAT |-> s_45,
               LONG |-> s_75],
     Enter @@ [CALL |-> s_W1AW, BAND |-> s_40, MODE |-> s_PH, COUNTRY |-> s_Canada],
     Enter @@ [CALL |-> s_K1ABC, BAND |-> s_20, MODETEST |-> s_CW],
     Enter @@ [CALL |-> s_W1AW, BAND |-> s_20, MODE |-> s_CW, LAT |-> s_45, LON |-> s_75,
               COMPUTERNAME |-> s_Run2],
     [cmd |-> "OPINFORESPONSE", GRID |-> s_FN31pr],
     [cmd |-> "COUNTRYLISTLOOKUPRESPONSE", CALL |-> s_K1ABC, LAT |-> s_45, LON |-> s_75,
      COUNTRY |-> s_Canada],
     [cmd |-> "APIVERRESPONSE", APIVER |-> s_1],
     [cmd |-> "PROGRAMRESPONSE", PGM |-> s_FD, VER |-> s_1]}

\* one turn of the inner read loop: the frame is counted, then handled; a
\* frame whose numbers parse does not raise
ApiFrame(rec) ==
    /\ hist.frames < MaxFrames
    /\ \E r \in {handle_frame(count_frame(Start, rec), last_emit, rec)} :
          /\ ~r.raised
          /\ hub' = r.cx.hub
          /\ sent' = r.cx.sent
          /\ last_emit' = r.last_emit
          /\ op' = [name |-> rec.cmd, wrote |-> r.wrote,
                    resolved |-> r.dest # NoDict,
                    origin_known |-> HasCoords(IF r.origin = NoDict THEN hub.origin
                                               ELSE r.origin),
                    accept |-> r.dest # NoDict /\
                               should_draw(hub, SafeMeta(r.meta).call, SafeMeta(r.meta).band,
                                           SafeMeta(r.meta).mode).draw,
                    gap |-> clock - last_emit > EMIT_GAP]
          /\ hist' = [Record(r.cx.sent) EXCEPT !.frames = @ + 1]
    /\ UNCHANGED <<clock, broken, cfg, task, other, qrz>>

NextApi ==
    \/ Env(OneSocket)
    \/ \E rec \in ApiFrames : ApiFrame(rec)

SpecApi == Init /\ [][NextApi]_vars

-----------------------------------------------------------------------------
(* A burst: 128 path events in one instant, then the calls of Spec *)

\* the calls Q001, Q002, ...
Filler(i) == <<"Q", Digits[(i \div 100) + 1], Digits[((i \div 10) % 10) + 1],
               Digits[(i % 10) + 1]>>

\* W1AW on 20 m CW, then 127 contacts with other calls
BurstMeta(i) ==
    IF i = 1 THEN Meta(s_W1AW, s_20, s_CW, s_CT, s_Canada)
    ELSE Meta(Filler(i), None, None, None, None)

\* the first deployment
InitBurst ==
    /\ Init
    /\ cfg.band_filter = {}

\* the next emit_path call of the burst
EmitBurst ==
    /\ hist.base < RECENT_DRAW_MAXLEN
    /\ LET meta == BurstMeta(hist.base + 1)
           cx == emit_path(Start, Here, meta, 0, NoDict)
       IN  /\ hub' = cx.hub
           /\ sent' = cx.sent
           /\ op' = [name |-> "emit_path", coords |-> TRUE,
                     key |-> DrawKey(meta.call, meta.band, meta.mode),
                     prev |-> LastDraw(DrawKey(meta.call, meta.band, meta.mode))]
           /\ hist' = [Record(cx.sent) EXCEPT !.base = @ + 1]
    /\ UNCHANGED <<last_emit, clock, broken, cfg, task, other, qrz>>

NextBurst ==
    \/ EmitBurst
    \/ /\ hist.base = RECENT_DRAW_MAXLEN
       /\ \/ \E d \in TimeSteps : Advance(d)
          \/ \E c \in EmitCalls : EmitPath(c[1], c[2], 0, c[3])

SpecBurst == InitBurst /\ [][NextBurst]_vars

-----------------------------------------------------------------------------
(* Properties of emit_path *)

PathsOf(ms) == SelectSeq(ms, IsPath)
NoPathSent == PathsOf(sent) = << >>
EmitCalled == op.name = "emit_path"

\* C1: an emit_path call with coordinates on both ends whose draw key was
\* accepted less than 2 s earlier broadcasts no path event, and one made 2 s
\* or more after the last accepted draw of that key broadcasts a path event.
C1_Dedup ==
    (EmitCalled /\ op.coords /\ op.prev >= 0) =>
        IF clock - op.prev < DEDUP_WINDOW THEN NoPathSent ELSE ~NoPathSent

\* a repeat of a key is suppressed inside the window
C1_Witness_Suppressed ==
    /\ EmitCalled /\ op.coords /\ op.prev >= 0
    /\ clock - op.prev = DEDUP_WINDOW - 1
    /\ NoPathSent

\* a repeat of a key is published again once the window has elapsed
C1_Witness_Again ==
    /\ EmitCalled /\ op.coords /\ op.prev >= 0
    /\ clock - op.prev = DEDUP_WINDOW
    /\ ~NoPathSent

\* C3: every path event broadcast and every record of recent_paths has lat
\* and lon on both ends, and an emit_path call with a missing coordinate on
\* either end changes no Hub state and broadcasts nothing.
BothEnds(p) == p.from.lat # None /\ p.from.lon # None /\ p.to.lat # None /\ p.to.lon # None

C3_PathsHaveCoords ==
    /\ \A i \in 1..Len(hub.recent_paths) : BothEnds(hub.recent_paths[i])
    /\ \A i \in 1..Len(sent) : IsPath(sent[i]) => BothEnds(sent[i].data)

C3_PartialNeverPublishes ==
    /\ []C3_PathsHaveCoords
    /\ [][(op'.name = "emit_path" /\ ~op'.coords) => (hub' = hub /\ sent' = << >>)]_vars

\* an emit_path call with a missing coordinate was made after a path event
C3_Witness ==
    /\ EmitCalled /\ ~op.coords
    /\ hub.recent_paths # << >>

\* C4: the ids of the path events broadcast are 1, 2, 3, ... in broadcast
\* order, a suppressed call consumes no id, and paths_drawn_total is
\* next_path_id - 1.
C4_MonotonicIds ==
    /\ hist.path_ids = [i \in 1..(hub.next_path_id - 1) |-> i]
    /\ hub.metrics.paths_drawn_total = hub.next_path_id - 1

\* a call suppressed by the dedup window after a path event
C4_Witness ==
    /\ hub.next_path_id = 2
    /\ EmitCalled /\ op.coords /\ op.prev >= 0 /\ NoPathSent

\* C5: the worked sets only grow, and no key gets a second first-worked
\* notice.
NoDuplicates(q) == \A i, j \in 1..Len(q) : q[i] = q[j] => i = j

C5_WorkedSetsGrow ==
    /\ [][/\ hub.sections_worked \subseteq hub'.sections_worked
          /\ hub.countries_worked \subseteq hub'.countries_worked]_vars
    /\ []NoDuplicates(hist.hits)

\* two path events carried the same section and countries that resolve to
\* the same key
C5_Witness ==
    /\ Len(hub.recent_paths) = 2
    /\ \A i \in 1..2 : hub.recent_paths[i].meta.section = s_CT
    /\ hub.recent_paths[1].meta.country # hub.recent_paths[2].meta.country
    /\ Len(hist.hits) = 2

\* C7: a subscriber that receives a path event receives it before the status
\* snapshot emit_path broadcasts for it, and that snapshot counts the path.
C7_PathBeforeStatus ==
    \A i \in 1..Len(sent) : IsPath(sent[i]) =>
        /\ \A j \in 1..(i - 1) : sent[j].type # "status"
        /\ i < Len(sent)
        /\ sent[i + 1].type = "status"
        /\ sent[i + 1].to = sent[i].to
        /\ sent[i + 1].data.metrics.paths_drawn_total = sent[i].data.id
        /\ sent[i + 1].data.state.last_event_ts = sent[i].data.timestamp

\* a subscriber received a path event
C7_Witness == \E i \in 1..Len(sent) : IsPath(sent[i]) /\ sent[i].to # {}

\* C10: a subscriber that joins gets the current snapshot with the worked
\* sets and no path message; a path message goes only to the subscribers
\* joined before the call that emits it and carries an id not assigned before.
JoinCalled == op.name = "connect"

C10_JoinSnapshot ==
    JoinCalled =>
        /\ NoPathSent
        /\ sent[1].type = "status" /\ sent[1].to = {op.ws}
        /\ sent[1].data.sections_worked = hub.sections_worked
        /\ sent[1].data.countries_worked = hub.countries_worked
        /\ sent[1].data.metrics.paths_drawn_total = Len(hist.path_ids)

C10_NoReplay ==
    /\ []C10_JoinSnapshot
    /\ [][\A i \in 1..Len(sent') : IsPath(sent'[i]) =>
            /\ sent'[i].to \subseteq hub.clients
            /\ sent'[i].data.id >= hub.next_path_id]_vars

\* a subscriber joined after a path event that grew both worked sets
C10_Witness ==
    /\ JoinCalled
    /\ hub.recent_paths # << >>
    /\ hub.sections_worked # {} /\ hub.countries_worked # {}

-----------------------------------------------------------------------------
(* Station presence *)

UpdateCalled == op.name \in {"update_station_presence", "set_station_origin"}

\* the stored fields of an entry other than its time of last update
Fields(e) == IF e = NoDict THEN NoDict ELSE [e EXCEPT !.last_seen = None]

\* the call left a stored field of its station other than last_seen
\* different from what it was, the creation of the entry included
Differs == Fields(op.before) # Fields(Stored(hub, op.call.station))

TypesSent == [i \in 1..Len(sent) |-> sent[i].type]
CountSent(type) == Cardinality({i \in 1..Len(sent) : sent[i].type = type /\ sent[i].bcast})

\* one station_origin broadcast, then one status broadcast, the status last
PresenceThenStatus ==
    /\ CountSent("station_origin") = 1
    /\ CountSent("status") = 1
    /\ sent[Len(sent)].type = "status"

\* C6: of two calls in a row of update_station_presence or set_station_origin
\* with the same arguments and no forced flag, the first broadcasts when it
\* makes anything differ from the stored entry, the second broadcasts
\* nothing and leaves every stored field but last_seen as the first left it.
C6_SecondIsSilent ==
    (UpdateCalled /\ op.repeat /\ ~op.call.force) => (sent = << >> /\ ~Differs)

C6_Idempotent ==
    /\ C6_SecondIsSilent
    /\ (UpdateCalled /\ ~op.call.force /\ Differs) => CountSent("station_origin") = 1

\* the same call was made twice in a row and the entry holds what it merged
C6_Witness ==
    /\ UpdateCalled /\ op.repeat /\ ~op.call.force
    /\ op.call.meta = M_band /\ op.call.location = Here

\* C8: a call that changes a stored field, or is forced, makes exactly one
\* station_origin broadcast followed by exactly one status broadcast; a call
\* that changes no stored field and is not forced broadcasts nothing.
C8_ChangeBroadcasts ==
    UpdateCalled =>
        IF Differs \/ op.call.force THEN PresenceThenStatus ELSE sent = << >>

\* what the code does: update_station_presence broadcasts for a change of
\* the location, of a presence key or of the sources, and when forced, but
\* neither for the creation of the entry nor for a change of its name
NameOnly ==
    /\ op.name = "update_station_presence"
    /\ \/ op.before = NoDict
       \/ /\ op.before # NoDict
          /\ op.before.name # Stored(hub, op.call.station).name
          /\ Fields([op.before EXCEPT !.name = op.call.station]) =
                 Fields(Stored(hub, op.call.station))

C8_ExceptNameOnly ==
    (UpdateCalled /\ ~NameOnly) =>
        IF Differs \/ op.call.force THEN PresenceThenStatus ELSE sent = << >>

\* a call changed the stored name alone and nothing was broadcast
C8_Witness_NameOnly ==
    UpdateCalled /\ NameOnly /\ op.before # NoDict /\ Differs /\ sent = << >>

-----------------------------------------------------------------------------
(* Contacts read from the API connection *)

EnterHandled == op.name = "ENTEREVENT"

\* the contact has a destination and an origin with coordinates, and
\* should_draw accepts its key
Publishable == EnterHandled /\ op.resolved /\ op.origin_known /\ op.accept

\* C2: a contact-submission frame whose destination resolves and whose
\* origin is known is published as a path event unless should_draw rejects
\* it; nothing else drops a contact.
C2_SoleGate == Publishable => ~NoPathSent

\* what the code does: such a contact is published when more than 0.01 s
\* have passed since the handler last called emit_path
C2_ExceptThrottle == (Publishable /\ op.gap) => ~NoPathSent

\* a contact that should_draw accepts was dropped by the handler
C2_Witness_Dropped == Publishable /\ ~op.gap /\ NoPathSent

-----------------------------------------------------------------------------
(* The join sequence *)

OriginKnown == hub.origin.lat # None

\* the messages of a join when every optional part is pushed
SixMessages ==
    <<"status">> \o (IF OriginKnown THEN <<"origin">> ELSE << >>)
        \o <<"station_origins", "operators", "sections_worked", "countries_worked">>

\* the messages of a join when a part is pushed only if it is known or not empty
JoinTypes ==
    <<"status">>
        \o (IF OriginKnown THEN <<"origin">> ELSE << >>)
        \o (IF DOMAIN hub.station_origins # {} THEN <<"station_origins">> ELSE << >>)
        \o (IF hub.operators_seen # {} THEN <<"operators">> ELSE << >>)
        \o (IF hub.sections_worked # {} THEN <<"sections_worked">> ELSE << >>)
        \o (IF hub.countries_worked # {} THEN <<"countries_worked">> ELSE << >>)

\* what a message of the join sequence must carry
JoinData(type) ==
    CASE type = "status" -> compose_status(hub)
      [] type = "origin" -> origin_payload(hub)
      [] type = "station_origins" -> station_origin_entries(hub)
      [] type = "operators" -> hub.operators_seen
      [] type = "sections_worked" -> hub.sections_worked
      [] type = "countries_worked" -> hub.countries_worked

\* C9 as stated: a join pushes the status, the primary origin if known, the
\* station origins, the roster, the worked sections and the worked
\* countries, in this order.
C9_JoinPushesAll == JoinCalled => TypesSent = SixMessages

\* C9: a join pushes to the joiner alone, in this order, the status, the
\* primary origin if it is known, the station origins if there are any, the
\* roster if it is not empty, the worked sections if there are any and the
\* worked countries if there are any, each carrying the Hub's current state.
C9_JoinSequence ==
    JoinCalled =>
        /\ TypesSent = JoinTypes
        /\ \A i \in 1..Len(sent) :
              /\ sent[i].to = {op.ws}
              /\ ~sent[i].bcast
              /\ sent[i].data = JoinData(sent[i].type)

\* a join pushed all six messages
C9_Witness == JoinCalled /\ Len(sent) = 6 /\ TypesSent = SixMessages

-----------------------------------------------------------------------------
(* Lines of the station status feed *)

\* A line of the status feed is a record: the tags it carries, as a frame;
\* pairs, the "key: value" and "key=value" tokens of _parse_key_value_pairs,
\* when it has any; parts, its parts between "|", when it has a "|".

\* pairs.get(key)
PairGet(line, key) ==
    IF "pairs" \in DOMAIN line /\ key \in DOMAIN line.pairs THEN line.pairs[key] ELSE None

\* "for key in (...): if key in pairs: station = pairs[key]; break"
RECURSIVE FirstPair(_, _)
FirstPair(line, keys) ==
    IF keys = << >> THEN None
    ELSE IF PairGet(line, Head(keys)) # None THEN PairGet(line, Head(keys))
    ELSE FirstPair(line, Tail(keys))

\* a parser that does not read the parts
PartOr_off(line, i, cur) == cur

\* "if len(parts) > i and not cur: cur = parts[i]", under
\* 'if "|" in text and not pairs'
PartOr(line, i, cur) ==
    IF "parts" \in DOMAIN line /\ "pairs" \notin DOMAIN line
       /\ Len(line.parts) > i /\ ~Truthy(cur)
    THEN Strip(line.parts[i + 1]) ELSE cur

\* (s or "").strip() or None
StripOrNone(s) == Or(Strip(Or(s, << >>)), None)

\* the band without a trailing "M" or "m"
StatusBand(band) ==
    LET b == Strip(Or(band, << >>))
    IN  Or(IF b # << >> /\ UpperChar(b[Len(b)]) = "M" THEN SubSeq(b, 1, Len(b) - 1) ELSE b,
           None)

\* _float_or_none
float_or_none(value) ==
    IF value = None THEN None
    ELSE IF float(value) = Raise THEN None
    ELSE float(value)

\* the longitude of a status line: west-positive, then _float_or_none
StatusLon(lon_s) ==
    IF parse_lon_west_positive(lon_s) # None THEN parse_lon_west_positive(lon_s)
    ELSE float_or_none(lon_s)

\* parse_station_status_payload: NoDict for None; the timestamp, which no
\* caller reads, is left out
parse_station_status_payload(line) ==
    LET station0 == extract_station_name(line)
        station1 == IF Truthy(station0) THEN station0
                    ELSE FirstPair(line, <<"station", "stationname", "clientname",
                                           "networkstation">>)
        station == PartOr(line, 0, station1)
        call == Or(first_tag(line, <<"CALL", "THISCALL", "STATIONCALL">>),
                   PairGet(line, "call"))
        operator == PartOr(line, 1, Or(first_tag(line, <<"OPERATOR", "MYCALL", "OP">>),
                                       PairGet(line, "operator")))
        band == PartOr(line, 2, Or(first_tag(line, <<"BAND">>), PairGet(line, "band")))
        mode == PartOr(line, 3, Or(first_tag(line, <<"MODE", "MODETEST">>),
                                   PairGet(line, "mode")))
        status_text == PartOr(line, 4,
                           Or(first_tag(line, <<"STATUS", "STATE", "CLIENTSTATUS",
                                                "CHATSTATUS">>),
                              Or(PairGet(line, "status"), PairGet(line, "state"))))
        grid == PartOr(line, 5,
                    Or(first_tag(line, <<"GRID", "MYGRID", "DXGRID", "STATIONGRID">>),
                       PairGet(line, "grid")))
        lat_s == Or(first_tag(line, <<"LAT", "LATITUDE">>),
                    Or(PairGet(line, "lat"), PairGet(line, "latitude")))
        lon_s == Or(first_tag(line, <<"LON", "LONG", "LONGITUDE", "LONWEST">>),
                    Or(PairGet(line, "lon"), PairGet(line, "longitude")))
    IN  IF ~Truthy(station) /\ ~Truthy(call) /\ ~Truthy(operator) THEN NoDict
        ELSE [station |-> station,
              call |-> StripOrNone(call),
              operator |-> StripOrNone(operator),
              band |-> StatusBand(band),
              mode |-> Or(Upper(Strip(Or(mode, << >>))), None),
              status |-> StripOrNone(status_text),
              section |-> Or(Upper(Strip(Or(Or(first_tag(line, <<"SECTION", "ARRL_SECT">>),
                                               PairGet(line, "section")), << >>))), None),
              country |-> StripOrNone(Or(first_tag(line, <<"COUNTRY">>),
                                         PairGet(line, "country"))),
              grid |-> Or(Upper(Strip(Or(grid, << >>))), None),
              message |-> StripOrNone(Or(first_tag(line, <<"CHATMESSAGE", "MESSAGE", "TEXT">>),
                                         Or(PairGet(line, "message"), PairGet(line, "text")))),
              lat |-> float_or_none(lat_s),
              lon |-> StatusLon(lon_s)]

\* n3fjp_status_client: 'grid or maidenhead_from_latlon(lat, lon)' raises
StatusRaises(p) ==
    /\ p.lat # None /\ p.lon # None /\ ~Truthy(p.grid)
    /\ maidenhead_from_latlon(Num(p.lat), Num(p.lon)) = Raise

\* n3fjp_status_client: the location of a payload, NoDict for None
StatusLocation(p) ==
    IF p.lat # None /\ p.lon # None
    THEN [lat |-> p.lat, lon |-> p.lon,
          grid |-> IF Truthy(p.grid) THEN p.grid
                   ELSE maidenhead_from_latlon(Num(p.lat), Num(p.lon))]
    ELSE IF Truthy(p.grid) /\ latlon_from_maidenhead(p.grid) # NoDict
         THEN [lat |-> latlon_from_maidenhead(p.grid).lat,
               lon |-> latlon_from_maidenhead(p.grid).lon, grid |-> p.grid]
    ELSE NoDict

\* n3fjp_status_client: the roster after the presence update
StatusOperator(cx, p) ==
    IF Truthy(p.operator) /\ p.operator \notin cx.hub.operators_seen
    THEN broadcast([cx EXCEPT !.hub.operators_seen = @ \cup {p.operator}], "operators",
                   cx.hub.operators_seen \cup {p.operator})
    ELSE cx

\* n3fjp_status_client: one line of the inner loop; a line with no payload
\* is not counted
status_line(cx, le, line) ==
    IF parse_station_status_payload(line) = NoDict THEN Handled(cx, le, << >>)
    ELSE IF StatusRaises(parse_station_status_payload(line))
         THEN Raised(count_frame(cx, line), le, << >>)
    ELSE [Handled(StatusOperator(
                      update_station_presence(count_frame(cx, line),
                          parse_station_status_payload(line).station,
                          [k \in PresenceKeys |-> parse_station_status_payload(line)[k]],
                          StatusLocation(parse_station_status_payload(line)),
                          s_status, FALSE),
                      parse_station_status_payload(line)),
                  le, << >>)
          EXCEPT !.dest = StatusLocation(parse_station_status_payload(line))]

-----------------------------------------------------------------------------
(* Frames and status lines, as the two read loops handle them *)

s_41 == <<"4","1",".","5">>
s_72 == <<"7","2",".","7">>
s_52 == <<"5","2",".","5">>
s_east == <<"-","1","3",".","5">>
s_XX == <<"X","X">>
s_Y == <<"Y">>
s_N == <<"N">>
s_N1XYZ == <<"N","1","X","Y","Z">>
s_PH_m == <<"4","0","m">>
s_Idle == <<"I","d","l","e">>
s_FN31PR == <<"F","N","3","1","P","R">>
s_FN32qq == <<"F","N","3","2","q","q">>

\* the frames that arrive on the API connection: the operator's locator, and
\* the operator's coordinates; a contact with embedded coordinates, one with
\* a section and a country too, one with an unknown section and a country,
\* one with a
\* country alone, one flagged not DX, one flagged DX with no country, one of
\* the same call with a country; the answer to a lookup
WireFrames ==
    {[cmd |-> "OPINFORESPONSE", GRID |-> s_FN31pr],
     [cmd |-> "OPINFORESPONSE", LAT |-> s_41, LON |-> s_72],
     Enter @@ [CALL |-> s_W1AW, BAND |-> s_20, MODE |-> s_CW, LAT |-> s_41, LON |-> s_72],
     Enter @@ [CALL |-> s_K1ABC, BAND |-> s_20, MODE |-> s_CW, SECTION |-> s_CT,
               COUNTRY |-> s_Canada, LAT |-> s_45, LONG |-> s_75],
     Enter @@ [CALL |-> s_K1ABC, BAND |-> s_20, MODE |-> s_CW, SECTION |-> s_XX,
               COUNTRY |-> s_Canada],
     Enter @@ [CALL |-> s_W1AW, BAND |-> s_20, MODE |-> s_CW, COUNTRY |-> s_Canada],
     Enter @@ [CALL |-> s_W1AW, BAND |-> s_20, MODE |-> s_CW, COUNTRY |-> s_Canada,
               DX |-> s_N],
     Enter @@ [CALL |-> s_N1OP, BAND |-> s_20, MODE |-> s_CW, DX |-> s_Y],
     Enter @@ [CALL |-> s_N1OP, BAND |-> s_20, MODE |-> s_CW, COUNTRY |-> s_Canada],
     [cmd |-> "COUNTRYLISTLOOKUPRESPONSE", CALL |-> s_N1OP, LAT |-> s_45, LON |-> s_75]}

Line == [cmd |-> "line"]

\* the lines that arrive on the status connection: the line of
\* test_parse_station_status_payload_xml and that of
\* test_parse_station_status_pipe_format; the primary station reporting its
\* locator; a station east of Greenwich reporting its coordinates
StatusLines ==
    {[cmd |-> "STATIONSTATUS", STATIONNAME |-> s_Run1, CALL |-> s_K1ABC, BAND |-> s_20,
      MODE |-> s_CW, STATUS |-> s_RUN, GRID |-> s_FN31PR, LAT |-> s_41, LON |-> s_72],
     Line @@ [parts |-> <<s_Run2, s_N1XYZ, s_PH_m, s_PH, s_Idle, s_FN32qq>>],
     Line @@ [pairs |-> [station |-> s_Run1, grid |-> s_FN31pr]],
     Line @@ [pairs |-> [station |-> s_Run2, lat |-> s_52, longitude |-> s_east]]}

\* what a step of a read loop leaves in op: the frame, what its handler
\* resolved, and what held when it started
Handling(rec, r) ==
    [name |-> rec.cmd, rec |-> rec, wrote |-> r.wrote, raised |-> r.raised,
     dest |-> r.dest, meta |-> r.meta,
     origin_known |-> HasCoords(IF r.origin = NoDict THEN hub.origin ELSE r.origin),
     prev |-> IF r.meta = NoDict THEN 0 - 1
              ELSE LastDraw(DrawKey(SafeMeta(r.meta).call, SafeMeta(r.meta).band,
                                    SafeMeta(r.meta).mode)),
     filtered |-> r.meta # NoDict /\
                  Filtered(DrawKey(SafeMeta(r.meta).call, SafeMeta(r.meta).band,
                                   SafeMeta(r.meta).mode)),
     gap |-> clock - last_emit > EMIT_GAP]

\* one turn of the inner loop of n3fjp_api_client on a frame whose handler
\* does not raise
WireFrame(rec) ==
    /\ hist.frames < MaxFrames
    /\ \E r \in {handle_frame(count_frame(Start, rec), last_emit, rec)} :
          /\ ~r.raised
          /\ hub' = r.cx.hub
          /\ sent' = r.cx.sent
          /\ last_emit' = r.last_emit
          /\ op' = Handling(rec, r)
          /\ hist' = [Record(r.cx.sent) EXCEPT !.frames = @ + 1]
    /\ UNCHANGED <<clock, broken, cfg, task, other, qrz>>

\* one turn of the inner loop of n3fjp_status_client
StatusLine(line) ==
    /\ hist.frames < MaxFrames
    /\ \E r \in {status_line(Start, last_emit, line)} :
          /\ ~r.raised
          /\ hub' = r.cx.hub
          /\ sent' = r.cx.sent
          /\ op' = Handling(line, r)
          /\ hist' = [Record(r.cx.sent) EXCEPT !.frames = @ + 1]
    /\ UNCHANGED <<last_emit, clock, broken, cfg, task, other, qrz>>

NextWire ==
    \/ Advance(DEDUP_WINDOW)
    \/ \E rec \in WireFrames : WireFrame(rec)
    \/ \E line \in StatusLines : StatusLine(line)

SpecWire == Init /\ [][NextWire]_vars

-----------------------------------------------------------------------------
(* The operator's origin *)

OpinfoHandled == op.name = "OPINFORESPONSE"

\* the response carries a locator that latlon_from_maidenhead resolves
CarriesGrid ==
    /\ OpinfoHandled
    /\ Truthy(tag(op.rec, "GRID"))
    /\ latlon_from_maidenhead(tag(op.rec, "GRID")) # NoDict

\* the origin is at the centre of the locator the response carries
AtCentre ==
    /\ hub.origin.lat = latlon_from_maidenhead(tag(op.rec, "GRID")).lat
    /\ hub.origin.lon = latlon_from_maidenhead(tag(op.rec, "GRID")).lon

\* C11: after an operator-info response with a valid locator G has been
\* handled, the Hub's origin is at the centre of G, whatever the Hub held
\* before.
C11_OriginIsCentre == CarriesGrid => AtCentre

\* what the code does: the origin moves when set_station_origin finds a
\* difference between the stored entry of the station and the new origin
C11_ExceptUnchanged == (CarriesGrid /\ sent # << >>) => AtCentre

\* the response moved the origin to the centre of FN31pr: 41 deg 43.75' N,
\* 72 deg 42.5' W
C11_Witness_Moved ==
    /\ CarriesGrid /\ sent # << >>
    /\ hub.origin.lat = Float(10015) /\ hub.origin.lon = Float(0 - 17450)

\* the station's entry was at the centre already and the origin stays unknown
C11_Witness_Stale == CarriesGrid /\ sent = << >> /\ hub.origin.lat = None

-----------------------------------------------------------------------------
(* Contacts with embedded coordinates *)

WireLat(rec) == float(tag(rec, "LAT"))
WireLon(rec) == float(first_tag(rec, <<"LON", "LONG">>))

\* a section that takes precedence over the coordinates of the frame
SectionFirst(rec) ==
    /\ cfg.prefer_section
    /\ section_to_latlon(Or(first_tag(rec, <<"SECTION", "ARRL_SECT">>), << >>)) # NoDict

\* a contact frame with a call, a band, a mode and coordinates, allowed by
\* the band and mode lists and with no section that is preferred, handled
\* while the origin is known and 2 s or more after the last draw of its key
EmbeddedContact ==
    /\ op.name = "ENTEREVENT"
    /\ {"CALL", "BAND", "MODE", "LAT"} \subseteq DOMAIN op.rec
    /\ {"LON", "LONG"} \cap DOMAIN op.rec # {}
    /\ ~SectionFirst(op.rec) /\ ~op.filtered
    /\ op.origin_known
    /\ (op.prev < 0 \/ clock - op.prev >= DEDUP_WINDOW)

\* one path event, to the latitude of the frame and minus its longitude
OnePathToWire ==
    /\ Len(PathsOf(sent)) = 1
    /\ PathsOf(sent)[1].data.to.lat = WireLat(op.rec)
    /\ PathsOf(sent)[1].data.to.lon = Float(0 - Num(WireLon(op.rec)))

\* C12: a contact frame with a call, a band, a mode and embedded coordinates,
\* handled while the origin is known and with no draw of its key in the last
\* 2 s, yields exactly one path event whose destination is the latitude of
\* the frame and minus its west-positive longitude.
C12_OnePath == EmbeddedContact => OnePathToWire

\* what the code does: so it is when more than 0.01 s have passed since the
\* handler last called emit_path
C12_ExceptThrottle == (EmbeddedContact /\ op.gap) => OnePathToWire

\* W1AW on 20 m CW at 41.5 / 72.7 gave one path event to 41.5 N, 72.7 W
C12_Witness_Published ==
    /\ EmbeddedContact /\ op.gap
    /\ op.rec.CALL = s_W1AW /\ op.rec.LAT = s_41
    /\ Len(PathsOf(sent)) = 1
    /\ PathsOf(sent)[1].data.to.lat = Float(9960)
    /\ PathsOf(sent)[1].data.to.lon = Float(0 - 17448)

\* such a contact was dropped
C12_Witness_Dropped == EmbeddedContact /\ ~op.gap /\ NoPathSent

-----------------------------------------------------------------------------
(* The tiers of the destination *)

\* the first of the destinations that is one
FirstDest(dests) ==
    IF \A i \in 1..Len(dests) : dests[i] = NoDict THEN NoDict
    ELSE dests[CHOOSE i \in 1..Len(dests) :
                   dests[i] # NoDict /\ \A j \in 1..(i - 1) : dests[j] = NoDict]

\* (a) the centroid of the section, when sections are preferred
ClaimedSection(f) ==
    IF cfg.prefer_section /\ f.sect # << >> THEN section_to_latlon(f.sect) ELSE NoDict

\* (b) the coordinates of the frame
ClaimedEmbedded(f) ==
    IF Truthy(f.tlat_s) /\ Truthy(f.tlon_s) /\ parse_lon_west_positive(f.tlon_s) # None
    THEN [lat |-> float(f.tlat_s), lon |-> parse_lon_west_positive(f.tlon_s)]
    ELSE NoDict

\* the lookup of a contact that has a call and is DX
ClaimedLookup(f) ==
    IF Truthy(f.call) /\ DxFlag(f) THEN qrz_lookup(f.call) ELSE NoDict

\* (c) what the lookup gives: its coordinates, else the centroid of a country
ClaimedQrz(f) ==
    IF ClaimedLookup(f) = NoDict THEN NoDict
    ELSE IF ClaimedLookup(f).dest # NoDict /\ HasCoords(ClaimedLookup(f).dest)
         THEN ClaimedLookup(f).dest
    ELSE country_centroid(Or(ClaimedLookup(f).country, f.country))

\* (d) the centroid of the country the contact has by then: that of the
\* lookup when a lookup gave one, else that of the frame
ClaimedCountry(f) ==
    country_centroid(IF ClaimedLookup(f) # NoDict /\ Truthy(ClaimedLookup(f).country)
                     THEN ClaimedLookup(f).country ELSE f.country)

ClaimedDest(f) ==
    FirstDest(<<ClaimedSection(f), ClaimedEmbedded(f), ClaimedQrz(f), ClaimedCountry(f)>>)

SameCoords(d, e) ==
    IF d = NoDict \/ e = NoDict THEN d = e
    ELSE d.lat = e.lat /\ d.lon = e.lon

ContactHandled == op.name = "ENTEREVENT" /\ "rec" \in DOMAIN op

\* C13: the destination of a contact is that of the first tier that
\* resolves, in the order section centroid (when sections are preferred),
\* embedded coordinates, lookup (for a DX contact with a call), centroid of
\* the country the contact has; a tier that does not resolve passes to the
\* next, and a contact none resolves has no destination.
C13_TierOrder == ContactHandled => SameCoords(op.dest, ClaimedDest(EnterFields(op.rec)))

\* a contact with a preferred section and coordinates went to the centroid
\* of the section
C13_Witness_Section ==
    /\ ContactHandled
    /\ ClaimedSection(EnterFields(op.rec)) # NoDict
    /\ ClaimedEmbedded(EnterFields(op.rec)) # NoDict
    /\ SameCoords(op.dest, SECTION_CENTROIDS[s_CT])

\* a contact whose section is unknown and whose lookup gave no coordinates
\* went to the centroid of a country
C13_Witness_FallThrough ==
    /\ ContactHandled
    /\ cfg.prefer_section /\ EnterFields(op.rec).sect = s_XX
    /\ SameCoords(op.dest, COUNTRY_CENTROIDS[k_CANADA])

\* a DX contact with no coordinates went where the lookup said
C13_Witness_Lookup ==
    /\ ContactHandled
    /\ ClaimedEmbedded(EnterFields(op.rec)) = NoDict
    /\ SameCoords(op.dest, QrzRecords[s_W1AW].dest)

-----------------------------------------------------------------------------
(* The sign of the longitude *)

\* the text of the longitude a frame or a status line carries
LonText(rec) ==
    Or(first_tag(rec, <<"LON", "LONG", "LONGITUDE", "LONWEST">>),
       Or(PairGet(rec, "lon"), PairGet(rec, "longitude")))

\* minus the number written in the longitude field
Negated(rec) == Float(0 - Num(float(LonText(rec))))

\* the longitudes of the messages of these types pushed by the step
LonsSent(types) ==
    {IF sent[i].type = "path" THEN sent[i].data.to.lon ELSE sent[i].data.lon :
        i \in {j \in 1..Len(sent) : sent[j].type \in types}}

\* an operator-info response whose origin is read from its coordinates
OpinfoByCoords ==
    /\ OpinfoHandled
    /\ ~Truthy(tag(op.rec, "GRID"))
    /\ Truthy(tag(op.rec, "LAT")) /\ Truthy(LonText(op.rec))

\* a contact whose destination is read from its coordinates, or the answer
\* to a lookup that is used
DestByCoords ==
    \/ /\ ContactHandled
       /\ ClaimedSection(EnterFields(op.rec)) = NoDict
       /\ ClaimedEmbedded(EnterFields(op.rec)) # NoDict
    \/ /\ op.name = "COUNTRYLISTLOOKUPRESPONSE"
       /\ op.dest # NoDict

\* a status line whose location is read from its coordinates
LineByCoords ==
    /\ op.name \in {"line", "STATIONSTATUS"}
    /\ parse_station_status_payload(op.rec) # NoDict
    /\ parse_station_status_payload(op.rec).lat # None
    /\ parse_station_status_payload(op.rec).lon # None
    /\ Truthy(parse_station_status_payload(op.rec).station)

\* C14: a longitude read from a west-positive field of an operator-info
\* response, a contact, a lookup response or a status line is stored and
\* published with the opposite sign: the value v of the wire becomes -v.
C14_LongitudeNegated ==
    /\ OpinfoByCoords =>
          /\ Stored(hub, hub.primary_station_name).lon = Negated(op.rec)
          /\ LonsSent({"origin", "station_origin"}) \subseteq {Negated(op.rec)}
    /\ DestByCoords =>
          /\ op.dest.lon = Negated(op.rec)
          /\ LonsSent({"path"}) \subseteq {Negated(op.rec)}
    /\ LineByCoords =>
          /\ Stored(hub, parse_station_status_payload(op.rec).station).lon = Negated(op.rec)
          /\ LonsSent({"station_origin"}) \subseteq {Negated(op.rec)}

\* the status line of the test, LON 72.7, left its station at 72.7 W, and
\* said so to the subscribers
C14_Witness ==
    /\ LineByCoords
    /\ op.rec.cmd = "STATIONSTATUS"
    /\ Stored(hub, s_Run1).lon = Float(0 - 17448)
    /\ LonsSent({"station_origin"}) = {Float(0 - 17448)}

\* a path event went to the longitude of the frame with its sign changed
C14_Witness_Path ==
    /\ DestByCoords
    /\ LonsSent({"path"}) = {Float(0 - 17448)}

\* a station east of Greenwich, longitude -13.5 on the wire, is at 13.5 E
C14_Witness_East ==
    /\ LineByCoords
    /\ Stored(hub, s_Run2).lon = Float(3240)

-----------------------------------------------------------------------------
(* Locators: the two conversions applied one after the other *)

\* the letters and digits the locators tried are made of: fields from the
\* first to the last, squares and subsquares from the first to the last, and
\* letters in the other case
FieldLetters == {"A", "F", "N", "R", "f"}
SquareDigits == {"0", "1", "3", "9"}
SubLetters == {"a", "p", "r", "x", "P", "R"}

Locators ==
    {<<f1, f2, d1, d2, s1, s2>> :
        f1 \in FieldLetters, f2 \in FieldLetters \ {"f"},
        d1 \in SquareDigits \ {"1"}, d2 \in SquareDigits \ {"3"},
        s1 \in SubLetters, s2 \in SubLetters \ {"a"}}

\* a locator is chosen
InitGrid ==
    /\ hub = NewHub(None)
    /\ cfg = [band_filter |-> {}, mode_filter |-> {}, prefer_section |-> FALSE,
              qrz |-> << >>]
    /\ last_emit = 0
    /\ clock = Epoch
    /\ broken = {}
    /\ sent = << >>
    /\ hist = NoHist
    /\ task = NotStarted
    /\ other = NotStarted
    /\ qrz = NewQrz
    /\ \E g \in Locators : op = [name |-> "locator", g |-> g]

\* latlon_from_maidenhead is applied to it
ToLatLon ==
    /\ op.name = "locator"
    /\ op' = [name |-> "latlon", g |-> op.g, ll |-> latlon_from_maidenhead(op.g)]
    /\ UNCHANGED <<hub, last_emit, clock, broken, cfg, sent, hist, task, other, qrz>>

\* maidenhead_from_latlon is applied to the result
ToGrid ==
    /\ op.name = "latlon"
    /\ op.ll # NoDict
    /\ op' = [name |-> "back", g |-> op.g, ll |-> op.ll,
              back |-> maidenhead_from_latlon(Num(op.ll.lat), Num(op.ll.lon))]
    /\ UNCHANGED <<hub, last_emit, clock, broken, cfg, sent, hist, task, other, qrz>>

NextGrid == ToLatLon \/ ToGrid

SpecGrid == InitGrid /\ [][NextGrid]_vars

\* the usual spelling of a locator: field letters in upper case, subsquare
\* letters in lower case
Spelling(g) ==
    <<UpperChar(g[1]), UpperChar(g[2]), g[3], g[4],
      Lower(<<g[5]>>)[1], Lower(<<g[6]>>)[1]>>

WentBack == op.name = "back"

\* C15 as stated: for every valid 6-character locator g, maidenhead_from_latlon
\* of the coordinates latlon_from_maidenhead gives for g is g itself.
C15_ReturnsItself ==
    /\ op.name = "latlon" => op.ll # NoDict
    /\ WentBack => op.back = op.g

\* C15: for every 6-character locator g, in whatever case its letters are
\* written, maidenhead_from_latlon of the coordinates latlon_from_maidenhead
\* gives for g is g in the usual spelling, field letters in upper case and
\* subsquare letters in lower case: g itself when g is written so.
C15_RoundTrip ==
    /\ op.name = "latlon" => op.ll # NoDict
    /\ WentBack => op.back = Spelling(op.g)
    /\ (WentBack /\ op.g = Spelling(op.g)) => op.back = op.g

\* FN31pr went to 41 deg 43.75' N, 72 deg 42.5' W and back
C15_Witness ==
    /\ WentBack
    /\ op.g = s_FN31pr
    /\ op.ll = [lat |-> Float(10015), lon |-> Float(0 - 17450)]
    /\ op.back = s_FN31pr

\* FN31PR came back as FN31pr
C15_Witness_Case == WentBack /\ op.g = s_FN31PR /\ op.back = s_FN31pr


-----------------------------------------------------------------------------
(* The connection supervisors: n3fjp_api_client and n3fjp_status_client *)

PyInt(n) == <<"int", n>>

N3FJP_API_PORT == 1100
N3FJP_STATUS_PORT == 1000

\* asyncio.sleep(2) of the except branch, in hundredths of a second
RECONNECT_DELAY == 200

Port(kind) == PyInt(IF kind = "api" THEN N3FJP_API_PORT ELSE N3FJP_STATUS_PORT)

\* asyncio.CancelledError, and str(e) of the exceptions that leave the loop
Cancelled == <<"CancelledError">>
e_refused == <<"C","o","n","n","e","c","t"," ","c","a","l","l"," ","f","a","i","l","e","d">>
e_reset == <<"C","o","n","n","e","c","t","i","o","n"," ","r","e","s","e","t"," ","b","y"," ","p","e","e","r">>
e_lost == <<"C","o","n","n","e","c","t","i","o","n"," ","l","o","s","t">>
e_closed == <<"N","3","F","J","P"," ","c","l","o","s","e","d"," ","t","h","e"," ","s","o","c","k","e","t">>
e_closed_status == <<"N","3","F","J","P"," ","s","t","a","t","u","s"," ","f","e","e","d"," ","c","l","o","s","e","d"," ","t","h","e"," ","s","o","c","k","e","t">>
e_float == <<"c","o","u","l","d"," ","n","o","t"," ","c","o","n","v","e","r","t"," ","s","t","r","i","n","g"," ","t","o"," ","f","l","o","a","t">>
e_index == <<"s","t","r","i","n","g"," ","i","n","d","e","x"," ","o","u","t"," ","o","f"," ","r","a","n","g","e">>

PeerClosed(kind) == IF kind = "api" THEN e_closed ELSE e_closed_status

\* a bootstrap that asks for the operator before it enables the updates
Bootstrap_opinfo_early ==
    <<[cmd |-> "APIVER"], [cmd |-> "PROGRAM"], CmdOpinfo,
      [cmd |-> "SETUPDATESTATE", VALUE |-> "TRUE"]>>

\* the four commands written after connecting
Bootstrap ==
    <<[cmd |-> "APIVER"], [cmd |-> "PROGRAM"],
      [cmd |-> "SETUPDATESTATE", VALUE |-> "TRUE"], CmdOpinfo>>

\* a "finally" that closes the writer before it awaits the heartbeat
Finally_closes_first(t, exc) ==
    IF t.hb = "running"
    THEN [t EXCEPT !.pc = "await_hb", !.exc = exc, !.hb = "cancelling",
                   !.sock = "closed"]
    ELSE [t EXCEPT !.pc = "wait_closed", !.exc = exc, !.sock = "closed"]

\* the "finally" of the inner try, up to its first await: a running
\* heartbeat is cancelled and awaited; with none started, or one that has
\* returned (awaiting it does not suspend), the writer is closed and
\* wait_closed awaited
Finally(t, exc) ==
    IF t.hb = "running"
    THEN [t EXCEPT !.pc = "await_hb", !.exc = exc, !.hb = "cancelling"]
    ELSE [t EXCEPT !.pc = "wait_closed", !.exc = exc, !.sock = "closed"]

\* except branches that leave the Hub's table alone
ExceptHub_silent(h, t, exc) == h

\* "except asyncio.CancelledError" and "except Exception as e", up to their
\* await of the status broadcast
ExceptHub(h, t, exc) ==
    update_connection_state(h, t.kind, FALSE, Port(t.kind),
                            IF exc = Cancelled THEN None ELSE exc)

\* an except branch that gives up when the connection fails
ExceptTask_gives_up(t, exc) ==
    [t EXCEPT !.pc = IF exc = Cancelled THEN "report_cancel" ELSE "done",
              !.exc = exc]

ExceptTask(t, exc) ==
    [t EXCEPT !.pc = IF exc = Cancelled THEN "report_cancel" ELSE "report",
              !.exc = exc]

\* hub.compose_status() is evaluated when the broadcast is called, before its
\* first await: the task that reaches a status broadcast holds the payload
Composed(h, t) ==
    IF t.pc \in {"announce", "report", "report_cancel"}
    THEN [t EXCEPT !.snap = compose_status(h)]
    ELSE t

\* a step of the task that leaves the Hub at h, the task at t and pushes msgs
TaskStep(name, h, t, msgs) ==
    /\ hub' = h
    /\ task' = Composed(h, t)
    /\ sent' = msgs
    /\ op' = [name |-> name]
    /\ hist' = Record(msgs)
    /\ UNCHANGED <<clock, broken, cfg, other, qrz>>

\* startup_event: create_task
Startup(kind) ==
    /\ task.pc = "idle"
    /\ TaskStep("startup", hub, Task(kind, "sleep"), << >>)
    /\ UNCHANGED last_emit

\* asyncio.sleep(1) returns
Started ==
    /\ task.pc = "sleep"
    /\ TaskStep("started", hub, [task EXCEPT !.pc = "connect"], << >>)
    /\ UNCHANGED last_emit

\* asyncio.open_connection returns
Connected ==
    /\ task.pc = "connect"
    /\ TaskStep("connected",
                update_connection_state(hub, task.kind, TRUE, Port(task.kind), None),
                [task EXCEPT !.pc = "announce", !.sock = "open", !.link = "up",
                             !.hb = "none", !.boot = 0, !.exc = None,
                             !.entered = FALSE],
                << >>)
    /\ UNCHANGED last_emit

\* asyncio.open_connection raises
ConnectFails ==
    /\ task.pc = "connect"
    /\ TaskStep("connect_fails", ExceptHub(hub, task, e_refused),
                ExceptTask(task, e_refused), << >>)
    /\ UNCHANGED last_emit

\* the status broadcast after connecting returns: the inner try is entered
Announced ==
    /\ task.pc = "announce"
    /\ \E cx \in {broadcast(Start, "status", task.snap)} :
          TaskStep("announced", cx.hub,
                   [task EXCEPT !.pc = IF task.kind = "api" THEN "boot" ELSE "read",
                                !.entered = TRUE, !.snap = NoDict],
                   cx.sent)
    /\ UNCHANGED last_emit

\* a bootstrap _send returns; after the fourth the heartbeat is started
BootSend ==
    /\ task.pc = "boot"
    /\ task.link = "up"
    /\ hub' = hub
    /\ sent' = << >>
    /\ hist' = hist
    /\ op' = [name |-> "send", wrote |-> <<Bootstrap[task.boot + 1]>>]
    /\ task' = IF task.boot + 1 = Len(Bootstrap)
               THEN [task EXCEPT !.boot = @ + 1, !.pc = "read", !.hb = "running"]
               ELSE [task EXCEPT !.boot = @ + 1]
    /\ last_emit' = IF task.boot + 1 = Len(Bootstrap) THEN 0 ELSE last_emit
    /\ UNCHANGED <<clock, broken, cfg, other, qrz>>

\* a bootstrap _send raises: the connection is lost
BootFails ==
    /\ task.pc = "boot"
    /\ task.link = "lost"
    /\ TaskStep("send_fails", hub, Finally(task, e_lost), << >>)
    /\ UNCHANGED last_emit

\* the connection under the socket is lost: the transport reports it to the
\* reader and to the writer of the stream
LinkLost ==
    /\ task.pc \in {"boot", "read"}
    /\ task.link = "up"
    /\ TaskStep("link_lost", hub, [task EXCEPT !.link = "lost"], << >>)
    /\ UNCHANGED last_emit

\* reader.read returns b"": ConnectionError
PeerClose ==
    /\ task.pc = "read"
    /\ task.link = "up"
    /\ TaskStep("peer_close", hub, Finally(task, PeerClosed(task.kind)), << >>)
    /\ UNCHANGED last_emit

\* reader.read raises the exception of the lost connection
ReadRaises ==
    /\ task.pc = "read"
    /\ task.link = "lost"
    /\ TaskStep("read_raises", hub, Finally(task, e_reset), << >>)
    /\ UNCHANGED last_emit

\* _heartbeat: _send raises on the lost connection, the exception is logged
\* and the sub-task returns
HbFails ==
    /\ task.hb = "running"
    /\ task.link = "lost"
    /\ TaskStep("heartbeat_ended", hub, [task EXCEPT !.hb = "ended"], << >>)
    /\ UNCHANGED last_emit

\* _heartbeat: CancelledError is raised again, the sub-task is done
HbCancelled ==
    /\ task.hb = "cancelling"
    /\ TaskStep("heartbeat_cancelled", hub, [task EXCEPT !.hb = "cancelled"], << >>)
    /\ UNCHANGED last_emit

\* "await hb_task" returns; writer.close(), then wait_closed is awaited
HbAwaited ==
    /\ task.pc = "await_hb"
    /\ task.hb = "cancelled"
    /\ TaskStep("close", hub, [task EXCEPT !.pc = "wait_closed", !.sock = "closed"],
                << >>)
    /\ UNCHANGED last_emit

\* wait_closed returns (or raises, which is suppressed): the exception
\* reaches the except branches of the outer try
Closed ==
    /\ task.pc = "wait_closed"
    /\ TaskStep("closed", ExceptHub(hub, task, task.exc), ExceptTask(task, task.exc),
                << >>)
    /\ UNCHANGED last_emit

\* the status broadcast of an except branch returns: sleep(2), or raise
Reported ==
    /\ task.pc \in {"report", "report_cancel"}
    /\ \E cx \in {broadcast(Start, "status", task.snap)} :
          TaskStep("reported", cx.hub,
                   [task EXCEPT !.pc = IF @ = "report" THEN "delay" ELSE "done",
                                !.snap = NoDict],
                   cx.sent)
    /\ UNCHANGED last_emit

\* asyncio.sleep(2) returns: the next turn of "while True"
Delayed ==
    /\ task.pc = "delay"
    /\ hub' = hub
    /\ sent' = << >>
    /\ hist' = hist
    /\ op' = [name |-> "delayed", delay |-> RECONNECT_DELAY]
    /\ task' = [task EXCEPT !.pc = "connect"]
    /\ UNCHANGED <<last_emit, clock, broken, cfg, other, qrz>>


\* shutdown_event cancels the task: CancelledError is raised at the await
\* the task is suspended at. In the inner try it runs the "finally"; in the
\* outer try it reaches "except asyncio.CancelledError"; in sleep(1) and in
\* an except branch it leaves the coroutine; at "await hb_task" it is
\* suppressed with the sub-task's own CancelledError
CancelTask(t) ==
    CASE t.pc \in {"sleep", "delay", "report"} -> [t EXCEPT !.pc = "done"]
      [] t.pc \in {"connect", "announce", "wait_closed"} -> ExceptTask(t, Cancelled)
      [] t.pc \in {"boot", "read"} -> Finally(t, Cancelled)
      [] t.pc = "await_hb" -> t

CancelHub(h, t) ==
    IF t.pc \in {"connect", "announce", "wait_closed"} THEN ExceptHub(h, t, Cancelled)
    ELSE h

\* a broadcast suspends only while it sends to a subscriber
Cancel ==
    /\ ~task.cancelled
    /\ task.pc \notin {"idle", "done"}
    /\ task.pc \in {"announce", "report"} => hub.clients # {}
    /\ TaskStep("cancel", CancelHub(hub, task),
                CancelTask([task EXCEPT !.cancelled = TRUE]), << >>)
    /\ UNCHANGED last_emit

s_abc == <<"a","b","c">>
s_200 == <<"2","0","0">>

\* the frames the API connection delivers: two that parse, and for each
\* branch that reads coordinates one whose coordinates are no numbers or lie
\* outside the range of the locator
ClientFrames ==
    {[cmd |-> "APIVERRESPONSE", APIVER |-> s_1],
     [cmd |-> "OPINFORESPONSE", GRID |-> s_FN31pr],
     [cmd |-> "OPINFORESPONSE", LAT |-> s_abc, LON |-> s_72],
     [cmd |-> "OPINFORESPONSE", LAT |-> s_200, LON |-> s_72],
     Enter @@ [CALL |-> s_W1AW, BAND |-> s_20, MODE |-> s_CW, LAT |-> s_abc, LON |-> s_75],
     [cmd |-> "COUNTRYLISTLOOKUPRESPONSE", CALL |-> s_K1ABC, LAT |-> s_abc, LON |-> s_75]}

\* the lines the status feed delivers: one that parses and one whose
\* coordinates lie outside the range of the locator
ClientLines ==
    {Line @@ [pairs |-> [station |-> s_Run1, grid |-> s_FN31pr]],
     Line @@ [pairs |-> [station |-> s_Run2, lat |-> s_200, lon |-> s_72]]}

\* the frames and lines a supervisor reads in a behaviour
MaxClientFrames == 1

\* str(e) of the exception a handler raises on a frame
HandlerError(rec) ==
    IF rec.cmd # "line" /\ float(tag(rec, "LAT")) = Raise THEN e_float ELSE e_index

\* a turn of the inner loop of n3fjp_api_client
ClientFrame(rec) ==
    /\ task.kind = "api" /\ task.pc = "read" /\ task.link = "up"
    /\ hist.frames < MaxClientFrames
    /\ WireFrame(rec)

\* a turn of the inner loop of n3fjp_status_client
ClientLine(line) ==
    /\ task.kind = "status" /\ task.pc = "read" /\ task.link = "up"
    /\ hist.frames < MaxClientFrames
    /\ StatusLine(line)

\* a turn of the inner loop whose handler raises: the exception leaves both
\* loops and runs the "finally"
FrameRaises(rec) ==
    /\ task.kind = "api" /\ task.pc = "read" /\ task.link = "up"
    /\ hist.frames < MaxClientFrames
    /\ \E r \in {handle_frame(count_frame(Start, rec), last_emit, rec)} :
          /\ r.raised
          /\ hub' = r.cx.hub
          /\ sent' = r.cx.sent
          /\ last_emit' = r.last_emit
          /\ op' = Handling(rec, r)
          /\ hist' = [Record(r.cx.sent) EXCEPT !.frames = @ + 1]
          /\ task' = Finally(task, HandlerError(rec))
    /\ UNCHANGED <<clock, broken, cfg, other, qrz>>

LineRaises(line) ==
    /\ task.kind = "status" /\ task.pc = "read" /\ task.link = "up"
    /\ hist.frames < MaxClientFrames
    /\ \E r \in {status_line(Start, last_emit, line)} :
          /\ r.raised
          /\ hub' = r.cx.hub
          /\ sent' = r.cx.sent
          /\ op' = Handling(line, r)
          /\ hist' = [Record(r.cx.sent) EXCEPT !.frames = @ + 1]
          /\ task' = Finally(task, HandlerError(line))
    /\ UNCHANGED <<last_emit, clock, broken, cfg, other, qrz>>

\* shutdown_event cancels the task inside the handler of an APIVERRESPONSE,
\* at its status broadcast
CancelInHandler(rec) ==
    /\ task.kind = "api" /\ task.pc = "read" /\ task.link = "up"
    /\ hist.frames < MaxClientFrames
    /\ rec.cmd = "APIVERRESPONSE"
    /\ ~task.cancelled
    /\ hub.clients # {}
    /\ hub' = [count_frame(Start, rec).hub EXCEPT !.state.apiver = tag(rec, "APIVER")]
    /\ sent' = << >>
    /\ op' = [name |-> "cancel"]
    /\ hist' = [hist EXCEPT !.frames = @ + 1]
    /\ task' = Finally([task EXCEPT !.cancelled = TRUE], Cancelled)
    /\ UNCHANGED <<last_emit, clock, broken, cfg, other, qrz>>

\* the steps the event loop runs once the awaited call has returned or raised
Run ==
    \/ Started \/ Connected \/ ConnectFails \/ Announced
    \/ BootSend \/ BootFails \/ ReadRaises
    \/ HbFails \/ HbCancelled \/ HbAwaited
    \/ Closed \/ Reported \/ Delayed

\* what the peer, the network, the subscribers and the shutdown do
Around ==
    \/ \E kind \in {"api", "status"} : Startup(kind)
    \/ LinkLost \/ PeerClose \/ Cancel
    \/ \E rec \in ClientFrames : ClientFrame(rec)
    \/ \E rec \in ClientFrames : FrameRaises(rec)
    \/ \E rec \in ClientFrames : CancelInHandler(rec)
    \/ \E line \in ClientLines : ClientLine(line)
    \/ \E line \in ClientLines : LineRaises(line)
    \/ \E ws \in OneSocket : WsConnect(ws)

NextClient == Run \/ Around

\* the clock stands still in this specification: the length of a delay is
\* what the step that ends it records
SpecClient == Init /\ [][NextClient]_vars

\* the event loop runs a task whose awaited call has returned or raised
SpecClientLive == SpecClient /\ WF_task(Run)


-----------------------------------------------------------------------------
(* C16: a supervisor is never terminal *)

\* the entry of the supervisor's connection in the Hub's table
Entry == ConnectionEntry(hub, task.kind, None)

\* the step just taken is a connect failure, an I/O error or a peer close
Failed == op.name \in {"connect_fails", "send_fails", "read_raises", "peer_close"}

\* the supervisor is about to connect again after the delay
Retrying ==
    /\ task.pc = "connect"
    /\ op.name = "delayed" /\ op.delay = RECONNECT_DELAY
    /\ task.kind \in DOMAIN hub.connection_states /\ ~Entry.connected

Done == task.pc = "done"

\* C16: the task ends only when it has been cancelled, and after a connect
\* failure, an I/O error or a peer close the supervisor gets to the state
\* Disconnected, waits the delay and is about to connect again, unless it is
\* cancelled on the way
C16_NeverTerminal ==
    /\ [](Done => task.cancelled)
    /\ Failed ~> (Retrying \/ Done)

\* a second connection is being attempted after the first one was closed
C16_Witness ==
    /\ Retrying
    /\ task.sock = "closed"
    /\ ~task.cancelled


-----------------------------------------------------------------------------
(* C17: a heartbeat write failure while the read is blocked *)

\* the heartbeat has ended on a write failure and the supervisor still
\* awaits reader.read
HbFailed == task.hb = "ended" /\ task.pc = "read"

\* the supervisor has left the session and the Hub's table says so
Reconnecting == task.pc \in {"delay", "done"} /\ ~Entry.connected

\* C17: once the heartbeat has ended on a write failure while the read is
\* blocked, the supervisor leaves Streaming, the Hub's entry of the
\* connection becomes disconnected and the supervisor gets to the reconnect
\* delay (or ends, if shutdown cancels it on the way)
C17_HeartbeatFailure == HbFailed ~> Reconnecting

\* the read has raised after the heartbeat ended
C17_Witness ==
    /\ op.name = "read_raises"
    /\ task.hb = "ended"
    /\ task.exc = e_reset

-----------------------------------------------------------------------------
(* C18: the order of the exit from a session *)

HbFinished(t) == t.hb \in {"none", "ended", "cancelled"}

\* the writer is closed in this step
Closes == task.sock = "open" /\ task'.sock = "closed"

\* the entry of a session whose inner try was entered is set to
\* disconnected in this step
Disconnects == task.entered /\ Entry.connected /\ ~Entry'.connected

\* the status broadcast of an except branch returns in this step
Reports == task.pc \in {"report", "report_cancel"} /\ op'.name = "reported"

\* the snapshot the broadcast carries
Snapshot(ms) == ms[1].data.state.connections[task.kind]

\* C18: the writer is closed only once the heartbeat sub-task has finished;
\* the entry of the connection is set to disconnected only once the writer is
\* closed, and it then holds the error that ended the session, if one did;
\* the broadcast that follows is one status snapshot that shows this entry
C18_ExitOrder ==
    [][/\ Closes => HbFinished(task')
       /\ Disconnects => /\ task'.sock = "closed"
                         /\ HbFinished(task')
                         /\ task'.exc # Cancelled => Entry'.last_error = task'.exc
       /\ Reports => /\ Len(sent') = 1
                     /\ sent'[1].type = "status"
                     /\ Snapshot(sent') = Entry
                     /\ ~Entry.connected]_vars

\* a session that was streaming has been left on an error: the heartbeat is
\* cancelled, the writer closed and the entry holds the error
C18_Witness ==
    /\ op.name = "closed"
    /\ task.hb = "cancelled"
    /\ task.sock = "closed"
    /\ ~Entry.connected
    /\ Entry.last_error = e_closed

-----------------------------------------------------------------------------
(* C19: cancellation leaves nothing behind *)

\* C19: when the task has exited, its socket is not open and its heartbeat
\* sub-task is not running
C19_NothingLeaked == Done => task.sock # "open" /\ HbFinished(task)

-----------------------------------------------------------------------------
(* C20: a frame with a protocol error *)

\* the last step was a turn of a read loop on a frame whose handler raised
FrameRaised ==
    /\ op.name \in {rec.cmd : rec \in ClientFrames \cup ClientLines}
    /\ op.raised

\* C20: after a frame with a protocol error the connection is still
\* Streaming: the supervisor awaits the next read on the open socket
C20_OnlyFrameSkipped == FrameRaised => task.pc = "read" /\ task.sock = "open"


\* with the exception of a task cancelled in the status broadcast between
\* open_connection and the inner try, which leaves with its socket open
C19_ExceptAnnounce == Done /\ task.entered => task.sock # "open" /\ HbFinished(task)

\* a task cancelled while it was streaming has exited with its socket closed
\* and its heartbeat cancelled
C19_Witness_Closed == Done /\ task.sock = "closed" /\ task.hb = "cancelled"

\* a task cancelled in the status broadcast after connecting has exited
C19_Witness_Open == Done /\ task.sock = "open"

\* with the exception of the frames whose handler raises, a turn of the loop
\* leaves the supervisor awaiting the next read
C20_ExceptRaised ==
    op.name \in {rec.cmd : rec \in ClientFrames \cup ClientLines} /\ ~op.raised
        => task.pc = "read" /\ task.sock = "open"

\* a frame whose latitude is no number has ended the session
C20_Witness_Value ==
    /\ FrameRaised
    /\ op.rec.cmd = "OPINFORESPONSE"
    /\ task.exc = e_float
    /\ task.pc = "await_hb"

\* a status line whose coordinates lie outside the locator's range has ended
\* the session
C20_Witness_Range ==
    /\ FrameRaised
    /\ op.rec.cmd = "line"
    /\ task.exc = e_index
    /\ task.sock = "closed"

-----------------------------------------------------------------------------
(* Both supervisors: the tasks startup_event creates run on one event loop *)

\* startup_event with both ports enabled: two tasks are created
StartupBoth ==
    /\ task.pc = "idle"
    /\ other.pc = "idle"
    /\ task' = Task("api", "sleep")
    /\ other' = Task("status", "sleep")
    /\ sent' = << >>
    /\ op' = [name |-> "startup"]
    /\ UNCHANGED <<hub, last_emit, clock, broken, cfg, hist, qrz>>

\* the event loop turns from one suspended supervisor to the other
Switch ==
    /\ other.pc # "idle"
    /\ task' = other
    /\ other' = task
    /\ sent' = << >>
    /\ op' = [name |-> "switch"]
    /\ UNCHANGED <<hub, last_emit, clock, broken, cfg, hist, qrz>>

\* a contact with a section and coordinates, logged at the primary station
PairFrames ==
    {Enter @@ [CALL |-> s_W1AW, BAND |-> s_20, MODE |-> s_CW, SECTION |-> s_CT,
               LAT |-> s_45, LON |-> s_75, STATIONNAME |-> s_Run1]}

\* the contact arrives on the API connection before any connection has failed
PairFrame(rec) ==
    /\ hub.state.last_disconnect_ts = None
    /\ ClientFrame(rec)

\* the deployment with the preset station
InitPair ==
    /\ Init
    /\ cfg.qrz = << >>

NextPair ==
    \/ StartupBoth
    \/ Switch
    \/ Run
    \/ LinkLost
    \/ PeerClose
    \/ \E rec \in PairFrames : PairFrame(rec)
    \/ \E ws \in OneSocket : WsConnect(ws)

SpecPair == InitPair /\ [][NextPair]_vars

-----------------------------------------------------------------------------
(* C21: what a subscriber is told of a transport error *)

\* the supervisor has pushed the status of an "except Exception" branch
ErrorReported == op.name = "reported" /\ task.pc = "delay"

StatusSent == {i \in 1..Len(sent) : sent[i].type = "status"}

\* the snapshot shows the connection down with the cause, and the global
\* flag says whether another connection is up
ShowsDown(st, name, cause) ==
    /\ name \in DOMAIN st.connections
    /\ st.connections[name].connected = FALSE
    /\ st.connections[name].last_error = cause
    /\ st.connected = (\E k \in DOMAIN st.connections \ {name} :
                          st.connections[k].connected)

\* C21 as stated: after a transport error on a connection, the status
\* snapshot pushed next shows that connection not connected, with the cause
\* as its last error and with its last-disconnect time set, and the global
\* connected flag is true exactly when another connection is connected
C21_ErrorShown ==
    ErrorReported =>
        \A i \in StatusSent :
            /\ ShowsDown(sent[i].data.state, task.kind, task.exc)
            /\ sent[i].data.state.connections[task.kind].last_disconnect_ts # None

\* C21, amended: the connection's last-disconnect time is set exactly when
\* the connection had been connected before the error; the last-disconnect
\* time of the snapshot itself is set in every case
C21_ExceptNeverConnected ==
    ErrorReported =>
        \A i \in StatusSent :
            LET st == sent[i].data.state
                entry == st.connections[task.kind]
            IN  /\ ShowsDown(st, task.kind, task.exc)
                /\ (entry.last_disconnect_ts # None) = (entry.last_connect_ts # None)
                /\ st.last_disconnect_ts # None

\* a connection that was up is reported down while the other one is up
C21_Witness_WasUp ==
    /\ ErrorReported
    /\ StatusSent # {}
    /\ task.exc \in {PeerClosed(task.kind), e_reset, e_lost}
    /\ \A i \in StatusSent :
          /\ sent[i].data.state.connections[task.kind].last_disconnect_ts # None
          /\ sent[i].data.state.connected

\* a connect failure of a connection that has never been up is reported
C21_Witness_NeverUp ==
    /\ ErrorReported
    /\ StatusSent # {}
    /\ task.exc = e_refused
    /\ \A i \in StatusSent :
          /\ sent[i].data.state.connections[task.kind].last_connect_ts = None
          /\ ~sent[i].data.state.connected

-----------------------------------------------------------------------------
(* C22: a failure stays within its own connection *)

\* the steps in which a supervisor notices a failure of its connection,
\* leaves its loop, reports the failure and waits to reconnect
FailureSteps ==
    {"connect_fails", "link_lost", "peer_close", "read_raises", "send_fails",
     "heartbeat_ended", "heartbeat_cancelled", "close", "closed", "reported"}

\* the entry of the Hub's table for a connection, NoDict if it has none
TableEntry(h, name) ==
    IF name \in DOMAIN h.connection_states THEN h.connection_states[name] ELSE NoDict

\* stations, worked sets and recent events
Logged(h) ==
    <<h.station_origins, h.sections_worked, h.countries_worked, h.operators_seen,
      h.recent_paths, h.recent_draw, h.recent_raw>>

\* C22: a step of a failure or disconnect of one connection leaves the other
\* supervisor, the other connection's entry in the Hub's table, the stations,
\* the worked sets and the recent events as they were
C22_Contained ==
    [][op'.name \in FailureSteps =>
          /\ other' = other
          /\ TableEntry(hub', other.kind) = TableEntry(hub, other.kind)
          /\ Logged(hub') = Logged(hub)]_vars

\* one connection has failed and been reported while the other one is up,
\* after a contact was logged
C22_Witness ==
    /\ op.name = "reported"
    /\ task.pc = "delay"
    /\ other.sock = "open"
    /\ other.kind \in DOMAIN hub.connection_states
    /\ hub.connection_states[other.kind].connected
    /\ hub.sections_worked # {}
    /\ hub.recent_paths # << >>
    /\ hub.station_origins # << >>

-----------------------------------------------------------------------------
(* QRZClient: the session, the lock of _login and the lookups in progress *)

\* "time.time() + 10 * 60", in hundredths of a second
SESSION_TTL == 60000

\* the coroutines that call lookup on the shared client
Callers == {"c1", "c2"}

\* the calls looked up: one QRZ has a record of, and no call
LookupCalls == {s_W1AW, << >>}

\* how many times lookup is called
MaxLookups == 3

s_KEY1 == <<"k","e","y","1">>
s_KEY2 == <<"k","e","y","2">>
\* the session keys QRZ hands out
SessionKeys == {s_KEY1, s_KEY2}

\* a caller outside lookup. Inside, pc is the await it is suspended at: the
\* lock of _login ("lock"), the login request ("login") or the lookup
\* request ("lookup"); key is the session key its lookup request carries,
\* waited whether it queued for the lock, logins the login requests it made
NoCall == [pc |-> "idle", call |-> None, key |-> None, waited |-> FALSE, logins |-> 0]

\* "self.username and self.password"
HasAccount == cfg.qrz # << >>

\* a re-check that never finds a session
SessionValid_never(q, now) == FALSE

\* _login: "if self.session_key and time.time() < self.session_expiry"
SessionValid(q, now) == Truthy(q.session_key) /\ now < Num(q.session_expiry)

\* lookup: "if not self.session_key or time.time() >= self.session_expiry"
NeedsLogin(q, now) == ~Truthy(q.session_key) \/ now >= Num(q.session_expiry)

\* "return None" and every other return of lookup
Return(q, c) == [q EXCEPT !.calls[c] = NoCall]

\* lookup from "if not self.session_key: return None" to the await of the
\* lookup request
AfterLogin(q, c) ==
    IF ~Truthy(q.session_key) THEN Return(q, c)
    ELSE [q EXCEPT !.calls[c].pc = "lookup", !.calls[c].key = q.session_key]

\* the end of "async with self.lock": the lock is free, and the first of
\* the waiters is woken
Release(q) == [q EXCEPT !.lock = "free"]

\* _login with the lock held, up to the await of the login request
LoginLocked(q, c, now) ==
    IF SessionValid(q, now) THEN AfterLogin(Release(q), c)
    ELSE [q EXCEPT !.calls[c].pc = "login", !.calls[c].logins = @ + 1]

\* a _login that does not take the lock
Login_unlocked(q, c, now) == LoginLocked(q, c, now)

\* _login up to its first await: the lock is taken at once when it is free
\* and nobody waits for it
Login(q, c, now) ==
    IF q.lock = "free" /\ q.waiters = << >>
    THEN LoginLocked([q EXCEPT !.lock = c], c, now)
    ELSE [q EXCEPT !.calls[c].pc = "lock", !.calls[c].waited = TRUE,
                   !.waiters = Append(@, c)]

\* QRZClient.lookup up to its first await
lookup(q, c, call, now) ==
    IF ~Truthy(call) THEN q
    ELSE IF ~HasAccount THEN q
    ELSE LET q1 == [q EXCEPT !.calls[c] = [NoCall EXCEPT !.call = call]]
         IN  IF NeedsLogin(q1, now) THEN Login(q1, c, now) ELSE AfterLogin(q1, c)

\* _login after the login request: the key of the response is kept for ten
\* minutes; a response without a key, or an exception, leaves no session
LoggedIn(q, key, now) ==
    IF Truthy(key)
    THEN [q EXCEPT !.session_key = key, !.session_expiry = Float(now + SESSION_TTL)]
    ELSE [q EXCEPT !.session_key = None]

\* lookup after the lookup request: HTTP 403 drops the session, any other
\* exception changes nothing, a response renews the session it carries
LookedUp(q, c, outcome, now) ==
    CASE outcome = "forbidden" -> [q EXCEPT !.session_key = None]
      [] outcome = "error" -> q
      [] outcome = "ok" -> [q EXCEPT !.session_key = q.calls[c].key,
                                     !.session_expiry = Float(now + SESSION_TTL)]

\* a step of a lookup that leaves the client at q
QrzStep(q, call) ==
    /\ qrz' = q
    /\ op' = call
    /\ UNCHANGED <<hub, last_emit, clock, broken, cfg, sent, task, other>>

\* a coroutine calls qrz_client.lookup(call)
QrzLookup(c, call) ==
    /\ c \in DOMAIN qrz.calls => qrz.calls[c].pc = "idle"
    /\ hist.lookups < MaxLookups
    /\ hist' = [hist EXCEPT !.lookups = @ + 1]
    /\ QrzStep(lookup([qrz EXCEPT !.calls = (c :> NoCall) @@ @], c, call, clock),
               [name |-> "lookup", caller |-> c, call |-> call])

\* the lock is handed to the coroutine that waited longest
Acquired(c) ==
    /\ qrz.lock = "free"
    /\ qrz.waiters # << >>
    /\ Head(qrz.waiters) = c
    /\ hist' = hist
    /\ QrzStep(LoginLocked([qrz EXCEPT !.lock = c, !.waiters = Tail(@)], c, clock),
               [name |-> "acquired", caller |-> c])

\* the login request returns a session key, or none
LoginResponds(c, key) ==
    /\ c \in DOMAIN qrz.calls
    /\ qrz.calls[c].pc = "login"
    /\ hist' = hist
    /\ QrzStep(AfterLogin(Release(LoggedIn(qrz, key, clock)), c),
               [name |-> "login_response", caller |-> c, key |-> key])

\* the lookup request returns a record, or fails with HTTP 403 or otherwise
LookupResponds(c, outcome) ==
    /\ c \in DOMAIN qrz.calls
    /\ qrz.calls[c].pc = "lookup"
    /\ hist' = hist
    /\ QrzStep(Return(LookedUp(qrz, c, outcome, clock), c),
               [name |-> "lookup_response", caller |-> c, outcome |-> outcome,
                result |-> IF outcome = "ok" THEN qrz_lookup(qrz.calls[c].call)
                           ELSE NoDict])

NextQrz ==
    \/ Advance(SESSION_TTL)
    \/ \E c \in Callers, call \in LookupCalls : QrzLookup(c, call)
    \/ \E c \in Callers : Acquired(c)
    \/ \E c \in Callers, key \in SessionKeys \cup {None} : LoginResponds(c, key)
    \/ \E c \in Callers, outcome \in {"ok", "forbidden", "error"} :
          LookupResponds(c, outcome)

SpecQrz == Init /\ [][NextQrz]_vars

-----------------------------------------------------------------------------
(* C23: one login at a time *)

CallOf(q, c) == IF c \in DOMAIN q.calls THEN q.calls[c] ELSE NoCall

\* the callers whose login request is in flight
LoggingIn == {c \in Callers : CallOf(qrz, c).pc = "login"}

\* caller c is handed the lock it waited for while a session is in force
HandedValid(c) ==
    /\ CallOf(qrz, c).pc = "lock"
    /\ CallOf(qrz', c).pc # "lock"
    /\ SessionValid(qrz, clock)

\* C23: whatever the interleaving of concurrent lookups, at most one login
\* request is in flight, and a lookup that waited for the lock while
\* another's login succeeded sends its request with that session and makes
\* no login request
C23_OneLogin ==
    /\ [](Cardinality(LoggingIn) <= 1)
    /\ [][\A c \in Callers :
            HandedValid(c) =>
                /\ CallOf(qrz', c).pc = "lookup"
                /\ CallOf(qrz', c).key = qrz.session_key
                /\ CallOf(qrz', c).logins = 0]_vars

\* a lookup that waited for the lock has sent its request with the session
\* another lookup obtained, which is itself still in flight
C23_Witness ==
    \E c, d \in Callers :
        /\ c # d
        /\ CallOf(qrz, c).pc = "lookup"
        /\ CallOf(qrz, c).waited
        /\ CallOf(qrz, c).logins = 0
        /\ CallOf(qrz, d).pc = "lookup"
        /\ CallOf(qrz, d).logins = 1
        /\ CallOf(qrz, c).key = CallOf(qrz, d).key

-----------------------------------------------------------------------------
(* C24: when the client logs in *)

\* caller c sends a login request in this step
LoginIssued(c) == CallOf(qrz', c).logins > CallOf(qrz, c).logins

\* caller c enters lookup with a call sign in this step
LookupEntered(c) ==
    /\ CallOf(qrz, c).pc = "idle"
    /\ op'.name = "lookup"
    /\ op'.caller = c
    /\ Truthy(op'.call)

\* C24: a login request is sent only when the client holds no session key
\* (none yet, or dropped after HTTP 403) or the key has expired, and a lookup
\* entered while a key that has not expired is cached sends its request with
\* that key and makes no login request
C24_LoginOnlyWhenNeeded ==
    [][\A c \in Callers :
          /\ LoginIssued(c) => NeedsLogin(qrz, clock)
          /\ (LookupEntered(c) /\ SessionValid(qrz, clock)) =>
                /\ CallOf(qrz', c).pc = "lookup"
                /\ CallOf(qrz', c).key = qrz.session_key
                /\ CallOf(qrz', c).logins = 0]_vars

\* a lookup entered with a session in force is in flight with that session
C24_Witness ==
    \E c \in Callers :
        /\ op.name = "lookup"
        /\ op.caller = c
        /\ CallOf(qrz, c).pc = "lookup"
        /\ ~CallOf(qrz, c).waited
        /\ CallOf(qrz, c).logins = 0
        /\ CallOf(qrz, c).key = qrz.session_key
        /\ SessionValid(qrz, clock)

\* a lookup entered after the session expired has sent a login request
C24_Witness_Expired ==
    \E c \in Callers :
        /\ op.name = "lookup"
        /\ op.caller = c
        /\ CallOf(qrz, c).pc = "login"
        /\ Truthy(qrz.session_key)
        /\ clock >= Num(qrz.session_expiry)

-----------------------------------------------------------------------------
(* C25: the invalid-session signal *)

\* the lookup request of caller c fails with HTTP 403 in this step
Denied(c) ==
    /\ CallOf(qrz, c).pc = "lookup"
    /\ op'.name = "lookup_response"
    /\ op'.caller = c
    /\ op'.outcome = "forbidden"

\* C25: a lookup that receives the invalid-session signal logs in again and
\* retries (its login request is in flight, or it waits for the lock), and
\* no lookup call makes more than one re-login
C25_RetriesOnce ==
    /\ [][\A c \in Callers :
            Denied(c) => CallOf(qrz', c).pc \in {"login", "lock", "lookup"}]_vars
    /\ [](\A c \in Callers : CallOf(qrz, c).logins <= 2)

\* what the code does: the lookup that receives the signal drops the session
\* and returns, and no call makes more than one login request
C25_DropsAndReturns ==
    /\ [][\A c \in Callers :
            Denied(c) =>
                /\ CallOf(qrz', c).pc = "idle"
                /\ qrz'.session_key = None
                /\ op'.result = NoDict]_vars
    /\ [](\A c \in Callers : CallOf(qrz, c).logins <= 1)

\* a lookup has just returned on HTTP 403
C25_Witness_Denied ==
    /\ op.name = "lookup_response"
    /\ op.outcome = "forbidden"
    /\ qrz.session_key = None
    /\ CallOf(qrz, op.caller).pc = "idle"

-----------------------------------------------------------------------------
(* Station names that differ in case and in blanks *)

\* "run  1 ": the first station's name in lower case and with spare blanks
s_run1_wide == <<"r","u","n"," "," ","1"," ">>
StationNames == {s_Run1, s_run1_wide, s_Run2}

\* <<meta, location, source>>: what the API connection reports of a station,
\* what the status feed reports, with and without a location, and a bare name
StationArgs == {<<M_band, NoDict, s_api>>,
                <<M_status, NoDict, s_status>>,
                <<M_band, There, s_status>>,
                <<NoDict, NoDict, None>>}

NextStations ==
    \/ \E name \in StationNames : SetStationOrigin(name, There)
    \/ \E name \in StationNames, a \in StationArgs :
          UpdateStationPresence(name, a[1], a[2], a[3], FALSE)

SpecStations == Init /\ [][NextStations]_vars

-----------------------------------------------------------------------------
(* C26: one entry per station *)

\* a name with its runs of blanks collapsed, trimmed and in upper case
Folded(name) == Upper(Strip(CollapseSpace(name)))

\* the step o is an update_station_presence call with a name that is not blank
PresenceUpdate(o) ==
    /\ o.name = "update_station_presence"
    /\ Truthy(o.call.station)
    /\ Folded(o.call.station) # << >>

\* the entry the call finds, a new one if the station is not known
Found(h, name) ==
    IF Folded(name) \in DOMAIN h.station_origins THEN h.station_origins[Folded(name)]
    ELSE NewEntry(name)

\* the entry after the call has what the call carries and, for the rest,
\* what the entry had; its sources are those it had and the call's
Merged(old, new, call) ==
    /\ new.sources = old.sources \cup (IF Truthy(call.source) THEN {call.source} ELSE {})
    /\ \A k \in PresenceKeys :
          new[k] = IF call.meta # NoDict /\ call.meta[k] # None THEN call.meta[k]
                   ELSE old[k]
    /\ call.location = NoDict => <<new.lat, new.lon, new.grid>> = <<old.lat, old.lon, old.grid>>

\* C26: every entry is stored under the folded form of its name, so that
\* there is one entry for each folded name seen; an update changes the one
\* entry of its folded name, adds its source to the entry's sources and
\* leaves the attributes it does not carry as they were
C26_OneEntryPerStation ==
    /\ [](\A k \in DOMAIN hub.station_origins : Folded(hub.station_origins[k].name) = k)
    /\ [][PresenceUpdate(op') =>
            LET key == Folded(op'.call.station)
            IN  /\ DOMAIN hub'.station_origins = DOMAIN hub.station_origins \cup {key}
                /\ \A k \in DOMAIN hub.station_origins \ {key} :
                      hub'.station_origins[k] = hub.station_origins[k]
                /\ Merged(Found(hub, op'.call.station), hub'.station_origins[key],
                          op'.call)]_vars

\* test_update_station_presence_deduplicates_sources, the second name with
\* spare blanks: one entry, both sources, band and mode of the first update
\* and status of the second
C26_Witness ==
    /\ PresenceUpdate(op)
    /\ op.call.station = s_run1_wide
    /\ DOMAIN hub.station_origins = {Folded(s_Run1)}
    /\ hub.station_origins[Folded(s_Run1)].sources = {s_api, s_status}
    /\ hub.station_origins[Folded(s_Run1)].band = s_20
    /\ hub.station_origins[Folded(s_Run1)].mode = s_PH
    /\ hub.station_origins[Folded(s_Run1)].status = s_RUN

-----------------------------------------------------------------------------
(* The text of a status line without tags *)

\* the keys parse_station_status_payload reads from the pairs, as the
\* field names of a line's pairs and as they are spelled in the text
PairKeys ==
    <<<<"station", <<"s","t","a","t","i","o","n">>>>,
      <<"stationname", <<"s","t","a","t","i","o","n","n","a","m","e">>>>,
      <<"clientname", <<"c","l","i","e","n","t","n","a","m","e">>>>,
      <<"networkstation", <<"n","e","t","w","o","r","k","s","t","a","t","i","o","n">>>>,
      <<"call", <<"c","a","l","l">>>>,
      <<"operator", <<"o","p","e","r","a","t","o","r">>>>,
      <<"band", <<"b","a","n","d">>>>,
      <<"mode", <<"m","o","d","e">>>>,
      <<"status", <<"s","t","a","t","u","s">>>>,
      <<"state", <<"s","t","a","t","e">>>>,
      <<"section", <<"s","e","c","t","i","o","n">>>>,
      <<"country", <<"c","o","u","n","t","r","y">>>>,
      <<"grid", <<"g","r","i","d">>>>,
      <<"lat", <<"l","a","t">>>>,
      <<"latitude", <<"l","a","t","i","t","u","d","e">>>>,
      <<"lon", <<"l","o","n">>>>,
      <<"longitude", <<"l","o","n","g","i","t","u","d","e">>>>,
      <<"message", <<"m","e","s","s","a","g","e">>>>,
      <<"text", <<"t","e","x","t">>>>,
      <<"timestamp", <<"t","i","m","e","s","t","a","m","p">>>>,
      <<"time", <<"t","i","m","e">>>>>>

\* the field of a line's pairs for a key of the text; every key that
\* parse_station_status_payload does not read is kept under "other"
KeyName(k) ==
    IF \E i \in 1..Len(PairKeys) : PairKeys[i][2] = k
    THEN PairKeys[CHOOSE i \in 1..Len(PairKeys) : PairKeys[i][2] = k][1]
    ELSE "other"

\* str.split(sep) for the separators seps: the text between them, empty
\* parts included
RECURSIVE SplitOn(_, _)
SplitOn(text, seps) ==
    IF \A i \in 1..Len(text) : text[i] \notin seps THEN <<text>>
    ELSE LET i == CHOOSE j \in 1..Len(text) :
                     text[j] \in seps /\ \A k \in 1..(j - 1) : text[k] \notin seps
         IN  <<SubSeq(text, 1, i - 1)>> \o SplitOn(SubSeq(text, i + 1, Len(text)), seps)

\* token.split(sep, 1)
SplitFirst(token, sep) == 
    LET i == CHOOSE j \in 1..Len(token) :
                 token[j] = sep /\ \A k \in 1..(j - 1) : token[k] # sep
    IN  <<SubSeq(token, 1, i - 1), SubSeq(token, i + 1, Len(token))>>

\* the body of the loop of _parse_key_value_pairs: the pairs after a token
PairsAfter(pairs, token0) ==
    LET token == Strip(token0)
        kv == IF InSeq(":", token) THEN SplitFirst(token, ":")
              ELSE SplitFirst(token, "=")
        key == Lower(Strip(kv[1]))
    IN  IF token = << >> THEN pairs
        ELSE IF ~InSeq(":", token) /\ ~InSeq("=", token) THEN pairs
        ELSE IF key = << >> THEN pairs
        ELSE (KeyName(key) :> Strip(kv[2])) @@ pairs

\* _parse_key_value_pairs on tokens: re.split(r"[|,\r\n]+", text) gives the
\* text between the separators, and an empty token is passed over
RECURSIVE PairsOf(_)
PairsOf(tokens) ==
    IF tokens = << >> THEN << >>
    ELSE PairsAfter(PairsOf(SubSeq(tokens, 1, Len(tokens) - 1)), tokens[Len(tokens)])

parse_key_value_pairs(text) ==
    IF text = << >> THEN << >> ELSE PairsOf(SplitOn(text, {"|", ",", "\r", "\n"}))

\* the line of a text that carries no tags: its pairs when it has any, and
\* its parts when it has a "|"
LineOf(text) ==
    LET pairs == parse_key_value_pairs(text)
        parts == IF InSeq("|", text) THEN [parts |-> SplitOn(text, {"|"})] ELSE << >>
    IN  IF DOMAIN pairs # {} THEN Line @@ [pairs |-> pairs] @@ parts
        ELSE Line @@ parts

\* parse_station_status_payload on a text that carries no tags
parse_station_status_text(text) ==
    IF Strip(text) = << >> THEN NoDict
    ELSE parse_station_status_payload(LineOf(Strip(text)))

\* "|".join(fields)
RECURSIVE Join(_)
Join(fields) ==
    IF Len(fields) = 1 THEN fields[1]
    ELSE Join(SubSeq(fields, 1, Len(fields) - 1)) \o <<"|">> \o fields[Len(fields)]

s_ph == <<"p","h">>
s_n1xyz_wide == <<" ","N","1","X","Y","Z"," ">>
s_op_pair == <<"o","p",":","N","1","X","Y","Z">>

\* what a pipe-delimited line has in each of its six places: the values of
\* test_parse_station_status_pipe_format, a blank, a value with blanks
\* around it, a band with its unit, a mode in lower case, and a token with
\* a colon
PipeFields ==
    <<{s_Run2, << >>},
      {s_N1XYZ, s_n1xyz_wide, << >>, s_op_pair},
      {s_40, s_PH_m},
      {s_PH, s_ph},
      {s_Idle, << >>},
      {s_FN32qq, << >>}>>

\* the lines: the first n places, for n from 1 to 6
PipeLines ==
    UNION {{f \in [1..n -> UNION {PipeFields[i] : i \in 1..Len(PipeFields)}] :
               \A i \in 1..n : f[i] \in PipeFields[i]} : n \in 1..Len(PipeFields)}

\* a line arrives
InitPipe ==
    /\ hub = NewHub(None)
    /\ cfg = [band_filter |-> {}, mode_filter |-> {}, prefer_section |-> FALSE,
              qrz |-> << >>]
    /\ last_emit = 0
    /\ clock = Epoch
    /\ broken = {}
    /\ sent = << >>
    /\ hist = NoHist
    /\ task = NotStarted
    /\ other = NotStarted
    /\ qrz = NewQrz
    /\ \E f \in PipeLines : op = [name |-> "text", fields |-> f, text |-> Join(f)]

\* parse_station_status_payload is applied to it
ParseText ==
    /\ op.name = "text"
    /\ op' = [name |-> "parsed", fields |-> op.fields, text |-> op.text,
              payload |-> parse_station_status_text(op.text)]
    /\ UNCHANGED <<hub, last_emit, clock, broken, cfg, sent, hist, task, other, qrz>>

NextPipe == ParseText

SpecPipe == InitPipe /\ [][NextPipe]_vars

-----------------------------------------------------------------------------
(* C27: a pipe-delimited status line *)

\* the line has been parsed, it has a "|" and none of its places holds a
\* "key: value" or "key=value" token
PipeParsed ==
    /\ op.name = "parsed"
    /\ Len(op.fields) > 1
    /\ \A i \in 1..Len(op.fields) : ~InSeq(":", op.fields[i]) /\ ~InSeq("=", op.fields[i])

\* what the line has in place i, without the blanks around it; None when
\* the place is missing or blank
Given(i) ==
    IF Len(op.fields) >= i /\ Strip(op.fields[i]) # << >> THEN Strip(op.fields[i])
    ELSE None

UpperOrNone(s) == IF s = None THEN None ELSE Upper(s)

\* a band without its unit
WithoutUnit(s) ==
    IF s # None /\ s[Len(s)] \in {"m", "M"}
    THEN (IF Len(s) = 1 THEN None ELSE SubSeq(s, 1, Len(s) - 1))
    ELSE s

\* the payload has the places of the line, the band and the mode as b and m
PositionalWith(b, m) ==
    IF Given(1) = None /\ Given(2) = None THEN op.payload = NoDict
    ELSE /\ op.payload # NoDict
         /\ Or(op.payload.station, None) = Given(1)
         /\ op.payload.operator = Given(2)
         /\ op.payload.band = b
         /\ op.payload.mode = m
         /\ op.payload.status = Given(5)
         /\ op.payload.grid = UpperOrNone(Given(6))
         /\ op.payload.call = None

\* C27 as stated: a pipe-delimited line without key-value tokens is parsed
\* as station | operator | band | mode | status | grid, the grid upper-cased
\* and the other fields as given; a line that gives neither station, call
\* nor operator yields no payload
C27_Positional == PipeParsed => PositionalWith(Given(3), Given(4))

\* C27, amended: the mode is upper-cased as well, and a band loses a
\* trailing "m" or "M"
C27_ExceptBandMode ==
    PipeParsed => PositionalWith(WithoutUnit(Given(3)), UpperOrNone(Given(4)))

\* the line of test_parse_station_status_pipe_format
C27_Witness ==
    /\ PipeParsed
    /\ op.fields = <<s_Run2, s_N1XYZ, s_40, s_PH, s_Idle, s_FN32qq>>
    /\ op.payload # NoDict
    /\ op.payload.grid = Upper(s_FN32qq)

\* a line with the band written "40m" and the mode "ph"
C27_Witness_Normalised ==
    /\ PipeParsed
    /\ Given(3) = s_PH_m
    /\ Given(4) = s_ph
    /\ op.payload # NoDict
    /\ op.payload.band = s_40
    /\ op.payload.mode = s_PH

\* a line with its first two places blank
C27_Witness_NoPayload ==
    /\ PipeParsed
    /\ Len(op.fields) = Len(PipeFields)
    /\ Given(1) = None
    /\ Given(2) = None
    /\ op.payload = NoDict

-----------------------------------------------------------------------------
(* C28: the primary station and the global origin *)

\* lat, lon and grid of a stored entry; none of them for no entry
LocationOf(entry) ==
    IF entry = NoDict THEN <<None, None, None>> ELSE <<entry.lat, entry.lon, entry.grid>>

\* the last call changed the stored location of the primary station
PrimaryMoved ==
    /\ op.name \in {"set_station_origin", "update_station_presence"}
    /\ Truthy(op.call.station)
    /\ Folded(op.call.station) = Folded(hub.primary_station_name)
    /\ LocationOf(Stored(hub, op.call.station)) # LocationOf(op.before)

\* the global origin is where the primary station is stored
OriginMirrors ==
    <<hub.origin.lat, hub.origin.lon, hub.origin.grid>>
        = LocationOf(Stored(hub, hub.primary_station_name))

\* C28 as stated: after an update that changes the stored location of the
\* primary station, by set_station_origin or by update_station_presence
\* with a location, the global origin is that station's lat, lon and grid
C28_OriginMirrors == PrimaryMoved => OriginMirrors

\* what holds: the updates made by set_station_origin are mirrored
C28_ExceptPresence ==
    (PrimaryMoved /\ op.name = "set_station_origin") => OriginMirrors

\* update_station_presence has moved the primary station and the global
\* origin is not there
C28_Witness_Stale ==
    /\ PrimaryMoved
    /\ op.name = "update_station_presence"
    /\ op.call.location # NoDict
    /\ ~OriginMirrors

\* set_station_origin has moved the primary station and the origin with it
C28_Witness_Mirrored ==
    /\ PrimaryMoved
    /\ op.name = "set_station_origin"
    /\ OriginMirrors
    /\ hub.origin.lat # None

-----------------------------------------------------------------------------
(* C29: the pending lookups *)

s_k1abc == <<"k","1","a","b","c">>

\* the frames that arrive: the operator's locator; contacts that carry no
\* destination, one with its call in lower case; a contact with embedded
\* coordinates; the answers to a lookup, with both coordinates, with none,
\* with the latitude alone, and for the other call
PendingFrames ==
    {[cmd |-> "OPINFORESPONSE", GRID |-> s_FN31pr],
     Enter @@ [CALL |-> s_k1abc, BAND |-> s_20, MODETEST |-> s_CW],
     Enter @@ [CALL |-> s_W1AW, BAND |-> s_40, MODE |-> s_PH],
     Enter @@ [CALL |-> s_K1ABC, BAND |-> s_20, MODE |-> s_CW, LAT |-> s_45, LON |-> s_75],
     [cmd |-> "COUNTRYLISTLOOKUPRESPONSE", CALL |-> s_K1ABC, LAT |-> s_45, LON |-> s_75],
     [cmd |-> "COUNTRYLISTLOOKUPRESPONSE", CALL |-> s_K1ABC],
     [cmd |-> "COUNTRYLISTLOOKUPRESPONSE", CALL |-> s_k1abc, LAT |-> s_45],
     [cmd |-> "COUNTRYLISTLOOKUPRESPONSE", CALL |-> s_W1AW, LAT |-> s_45, LON |-> s_75]}

NextPending == \E rec \in PendingFrames : WireFrame(rec)

SpecPending == Init /\ [][NextPending]_vars

\* the key of the pending lookup a frame is about
PendingKey(rec) == Upper(Or(tag(rec, "CALL"), << >>))

\* a contact with a callsign was handled and resolved no destination
Unresolved ==
    /\ op.name = "ENTEREVENT"
    /\ op.dest = NoDict
    /\ Truthy(tag(op.rec, "CALL"))

\* the answer to a lookup was handled
Answered == op.name = "COUNTRYLISTLOOKUPRESPONSE"

\* the contact is noted under its upper-cased call and the lookup is asked
PendingStored ==
    Unresolved =>
        /\ PendingKey(op.rec) \in DOMAIN hub.pending_meta
        /\ hub.pending_meta[PendingKey(op.rec)].meta.call = tag(op.rec, "CALL")
        /\ InSeq(CmdLookup(tag(op.rec, "CALL")), op.wrote)

\* the entries are stored under upper-cased calls
PendingKeyed == \A k \in DOMAIN hub.pending_meta : Upper(k) = k

\* C29 as stated: a contact with callsign C that resolves no destination is
\* stored under upper-cased C and a lookup is asked; once the answer for C
\* is handled, whatever the origin and the answer hold, no entry for C is
\* left; the entries are one per upper-cased call
C29_PendingConsumed ==
    /\ PendingStored
    /\ PendingKeyed
    /\ Answered => PendingKey(op.rec) \notin DOMAIN hub.pending_meta

\* what holds: the entry is removed by an answer that is drawn from, one
\* handled with an origin known to the Hub and with both coordinates
C29_ExceptUnused ==
    /\ PendingStored
    /\ PendingKeyed
    /\ (Answered /\ op.dest # NoDict) => PendingKey(op.rec) \notin DOMAIN hub.pending_meta

\* an answer was handled while the Hub had no origin, or carried no
\* coordinates, and the entry of its call is still there
C29_Witness_Outlives ==
    /\ Answered
    /\ op.dest = NoDict
    /\ PendingKey(op.rec) \in DOMAIN hub.pending_meta

\* the same, with an origin known: the answer lacks a coordinate
C29_Witness_NoCoords ==
    /\ C29_Witness_Outlives
    /\ hub.origin.lat # None

\* an answer with coordinates was handled after its contact and removed
\* the entry
C29_Witness_Consumed ==
    /\ Answered
    /\ op.dest # NoDict
    /\ op.meta.band # None
    /\ PendingKey(op.rec) \notin DOMAIN hub.pending_meta

\* a contact was noted under its upper-cased call
C29_Witness_Stored ==
    /\ Unresolved
    /\ tag(op.rec, "CALL") = s_k1abc
    /\ s_K1ABC \in DOMAIN hub.pending_meta

-----------------------------------------------------------------------------
(* The bytes of a connection *)

\* Bytes are a sequence of one-character strings, as str is; the feeds are
\* ASCII, which decode(errors="ignore") leaves as it is.

START == <<"<","C","M","D",">">>
END == <<"<","/","C","M","D",">">>
NEWLINE == <<"\n">>

\* bytearray.find(sub, start): the lowest index at or after start where sub
\* begins, counted from 0, or -1
Find(buffer, sub, start) ==
    LET hits == {i \in start..(Len(buffer) - Len(sub)) :
                    SubSeq(buffer, i + 1, i + Len(sub)) = sub}
    IN  IF hits = {} THEN 0 - 1
        ELSE CHOOSE i \in hits : \A j \in hits : i <= j

\* buffer[n:]
From(buffer, n) == SubSeq(buffer, n + 1, Len(buffer))

\* an extraction that leaves the frame in the buffer
extract_one_frame_kept(buffer) ==
    LET start == Find(buffer, START, 0)
        end == IF start = 0 - 1 THEN 0 - 1 ELSE Find(buffer, END, start)
    IN  IF start = 0 - 1 \/ end = 0 - 1 THEN [rec |-> None, buffer |-> buffer]
        ELSE [rec |-> SubSeq(buffer, start + Len(START) + 1, end), buffer |-> buffer]

\* _extract_one_frame: the text between the first <CMD> and the first </CMD>
\* after it, and the buffer with everything up to that </CMD> deleted; None
\* and the buffer as it is when either is missing
extract_one_frame(buffer) ==
    LET start == Find(buffer, START, 0)
        end == IF start = 0 - 1 THEN 0 - 1 ELSE Find(buffer, END, start)
    IN  IF start = 0 - 1 \/ end = 0 - 1 THEN [rec |-> None, buffer |-> buffer]
        ELSE [rec |-> SubSeq(buffer, start + Len(START) + 1, end),
              buffer |-> From(buffer, end + Len(END))]

\* bytes.strip(): blanks, tabs, carriage returns and newlines
IsWhite(c) == c \in {" ", "\t", "\r", "\n"}

RECURSIVE StripWhite(_)
StripWhite(s) ==
    IF s # << >> /\ IsWhite(Head(s)) THEN StripWhite(Tail(s))
    ELSE IF s # << >> /\ IsWhite(s[Len(s)]) THEN StripWhite(SubSeq(s, 1, Len(s) - 1))
    ELSE s

\* _extract_line: the stripped text before the first newline, and the buffer
\* with the line deleted
extract_line(buffer) ==
    LET newline == Find(buffer, NEWLINE, 0)
    IN  IF newline = 0 - 1 THEN [rec |-> None, buffer |-> buffer]
        ELSE [rec |-> StripWhite(SubSeq(buffer, 1, newline)),
              buffer |-> From(buffer, newline + 1)]

\* the inner loop of n3fjp_status_client: "rec = _extract_one_frame(buf);
\* if rec is None: rec = _extract_line(buf)"
extract_status(buffer) ==
    IF extract_one_frame(buffer).rec # None
    THEN extract_one_frame(buffer) @@ [by |-> "frame"]
    ELSE extract_line(buffer) @@ [by |-> "line"]

\* the inner loop of n3fjp_api_client
extract_api(buffer) == extract_one_frame(buffer) @@ [by |-> "frame"]

\* the names of the tags the frames of the feeds carry
TagChars ==
    [APIVER |-> <<"A","P","I","V","E","R">>,
     PGM |-> <<"P","G","M">>,
     VER |-> <<"V","E","R">>,
     GRID |-> <<"G","R","I","D">>,
     LAT |-> <<"L","A","T">>,
     LON |-> <<"L","O","N">>,
     LONG |-> <<"L","O","N","G">>,
     CALL |-> <<"C","A","L","L">>,
     BAND |-> <<"B","A","N","D">>,
     MODE |-> <<"M","O","D","E">>,
     STATIONNAME |-> <<"S","T","A","T","I","O","N","N","A","M","E">>,
     OPERATOR |-> <<"O","P","E","R","A","T","O","R">>,
     STATUS |-> <<"S","T","A","T","U","S">>]

\* re.search(rf"<{name}>(.*?)</{name}>", text, re.IGNORECASE | re.DOTALL):
\* the text between the first opening tag and the first closing tag after it
TagText(text, name) ==
    LET open == <<"<">> \o name \o <<">">>
        close == <<"<", "/">> \o name \o <<">">>
        s == Find(Upper(text), open, 0)
        e == IF s = 0 - 1 THEN 0 - 1 ELSE Find(Upper(text), close, s + Len(open))
    IN  IF s = 0 - 1 \/ e = 0 - 1 THEN None
        ELSE SubSeq(text, s + Len(open) + 1, e)

\* the tags of a text, each with the text it holds
TagFields(text) ==
    [n \in {t \in DOMAIN TagChars : TagText(text, TagChars[t]) # None} |->
        TagText(text, TagChars[n])]

\* the commands the read loop of n3fjp_api_client looks for in rec.upper(),
\* in the order it looks for them
CommandChars ==
    <<<<"APIVERRESPONSE",
        <<"A","P","I","V","E","R","R","E","S","P","O","N","S","E">>>>,
      <<"PROGRAMRESPONSE",
        <<"P","R","O","G","R","A","M","R","E","S","P","O","N","S","E">>>>,
      <<"OPINFORESPONSE",
        <<"O","P","I","N","F","O","R","E","S","P","O","N","S","E">>>>,
      <<"ENTEREVENT", <<"E","N","T","E","R","E","V","E","N","T">>>>,
      <<"COUNTRYLISTLOOKUPRESPONSE",
        <<"C","O","U","N","T","R","Y","L","I","S","T","L","O","O","K","U","P","R","E","S","P","O","N","S","E">>>>>>

RECURSIVE CommandFrom(_, _)
CommandFrom(text, i) ==
    IF i > Len(CommandChars) THEN "other"
    ELSE IF Contains(Upper(text), CommandChars[i][2]) THEN CommandChars[i][1]
    ELSE CommandFrom(text, i + 1)

\* a frame of the API connection as the handlers read it
FrameRecord(text) == [cmd |-> CommandFrom(text, 1)] @@ TagFields(text)

\* a frame or a line of the status connection as parse_station_status_payload
\* reads it
StatusRecord(text) == TagFields(StripWhite(text)) @@ LineOf(StripWhite(text))

-----------------------------------------------------------------------------
(* The read loops, byte by byte *)

\* what N3FJP sends on the API connection: the answer to APIVER, the
\* operator's locator, and an operator's latitude that is no number; each
\* followed by "\r\n", as _send ends a command
b_apiver ==
    <<"<","C","M","D",">","<","A","P","I","V","E","R","R","E","S","P","O","N",
      "S","E",">","<","A","P","I","V","E","R",">","1","<","/","A","P","I","V",
      "E","R",">","<","/","C","M","D",">","\r","\n">>
b_opinfo ==
    <<"<","C","M","D",">","<","O","P","I","N","F","O","R","E","S","P","O","N",
      "S","E",">","<","G","R","I","D",">","F","N","3","1","p","r","<","/","G",
      "R","I","D",">","<","/","C","M","D",">","\r","\n">>
b_opinfo_abc ==
    <<"<","C","M","D",">","<","O","P","I","N","F","O","R","E","S","P","O","N",
      "S","E",">","<","L","A","T",">","a","b","c","<","/","L","A","T",">","<",
      "L","O","N",">","7","5",".","5","<","/","L","O","N",">","<","/","C","M",
      "D",">","\r","\n">>

\* what it sends on the status connection: the line of
\* test_parse_station_status_pipe_format, a frame of station 'Run 1', the
\* same with a newline between its tags, and a station at latitude 200
b_line ==
    <<"R","u","n"," ","2","|","N","1","X","Y","Z","|","4","0","|","P","H",
      "\n">>
b_status ==
    <<"<","C","M","D",">","<","S","T","A","T","I","O","N","N","A","M","E",">",
      "R","u","n"," ","1","<","/","S","T","A","T","I","O","N","N","A","M","E",
      ">","<","B","A","N","D",">","2","0","<","/","B","A","N","D",">","<","/",
      "C","M","D",">","\r","\n">>
b_status_two ==
    <<"<","C","M","D",">","<","S","T","A","T","I","O","N","N","A","M","E",">",
      "R","u","n"," ","1","<","/","S","T","A","T","I","O","N","N","A","M","E",
      ">","\n","<","B","A","N","D",">","4","0","<","/","B","A","N","D",">",
      "<","/","C","M","D",">","\r","\n">>
b_status_far ==
    <<"<","C","M","D",">","<","S","T","A","T","I","O","N","N","A","M","E",">",
      "R","u","n"," ","2","<","/","S","T","A","T","I","O","N","N","A","M","E",
      ">","<","L","A","T",">","2","0","0","<","/","L","A","T",">","<","L","O",
      "N",">","7","2",".","7","<","/","L","O","N",">","<","/","C","M","D",">",
      "\r","\n">>

\* the end of a frame whose head was sent before the connection was made
b_tail ==
    <<"R",">","<","/","C","M","D",">","\r","\n">>

\* a frame that neither connection knows
b_update ==
    <<"<","C","M","D",">","<","U","P","D","A","T","E","R","E","S","P","O","N",
      "S","E",">","<","V","A","L","U","E",">","T","R","U","E","<","/","V","A",
      "L","U","E",">","<","/","C","M","D",">","\r","\n">>

MaxUnits == 2

Units(kind) ==
    IF kind = "api" THEN {b_apiver, b_opinfo, b_opinfo_abc, b_update, b_tail}
    ELSE {b_line, b_status, b_status_two, b_status_far, b_update}

RECURSIVE Concat(_)
Concat(units) == IF units = << >> THEN << >> ELSE Head(units) \o Concat(Tail(units))

\* the byte streams of a connection: up to MaxUnits frames or lines
Streams(kind) ==
    {Concat(u) : u \in UNION {[1..n -> Units(kind)] : n \in 1..MaxUnits}}

READ_SIZE == 4096

\* how many bytes a reader.read(4096) returns when n are on their way: one,
\* half of them, or all, and no more than 4096
ReadSizes(n) == {k \in {1, n \div 2, n} : k >= 1 /\ k <= n /\ k <= READ_SIZE}

\* a supervisor suspended in the reader.read of its inner loop, the buffer
\* empty; buf is the buffer, rec the frame being handled
Reading(kind) ==
    [Task(kind, "read") EXCEPT !.sock = "open", !.link = "up", !.entered = TRUE,
                               !.hb = IF kind = "api" THEN "running" ELSE "none"]
    @@ [buf |-> << >>, rec |-> None]

\* one supervisor is connected and about to read; op holds the bytes N3FJP
\* has still to send (stream), the bytes read (arrived), the frames and
\* lines taken out of the buffer (started) and those whose handler has been
\* run (handled)
InitFrames ==
    /\ cfg = [band_filter |-> {}, mode_filter |-> {}, prefer_section |-> FALSE,
              qrz |-> << >>]
    /\ last_emit = 0
    /\ clock = Epoch
    /\ broken = {}
    /\ sent = << >>
    /\ hist = NoHist
    /\ other = NotStarted
    /\ qrz = NewQrz
    /\ \E kind \in {"api", "status"} :
          /\ task = Reading(kind)
          /\ hub = update_connection_state(NewHub(PRIMARY_STATION_NAME), kind, TRUE,
                                           Port(kind), None)
          /\ \E s \in Streams(kind) :
                op = [name |-> "connected", stream |-> s, arrived |-> << >>,
                      started |-> << >>, handled |-> << >>]

\* "chunk = await reader.read(4096); buf.extend(chunk)"
ReadChunk(n) ==
    /\ task.pc = "read"
    /\ task' = [task EXCEPT !.pc = "extract", !.buf = @ \o SubSeq(op.stream, 1, n)]
    /\ op' = [op EXCEPT !.name = "read", !.stream = From(@, n),
                        !.arrived = @ \o SubSeq(op.stream, 1, n)]
    /\ UNCHANGED <<hub, last_emit, clock, broken, cfg, sent, hist, other, qrz>>

\* N3FJP has sent everything and closes: "if not chunk: raise ConnectionError"
StreamEnds ==
    /\ task.pc = "read"
    /\ op.stream = << >>
    /\ task' = Finally(task, PeerClosed(task.kind))
    /\ op' = [op EXCEPT !.name = "peer_close"]
    /\ UNCHANGED <<hub, last_emit, clock, broken, cfg, sent, hist, other, qrz>>

\* the buffer of a task after its loop has tried to take a frame, with the
\* frame taken (rec, None for none) and how it was taken (by)
Extracted(t) == IF t.kind = "api" THEN extract_api(t.buf) ELSE extract_status(t.buf)

\* the head of the inner loop: "rec = _extract_one_frame(buf)", on the status
\* connection "if rec is None: rec = _extract_line(buf)", and "if rec is
\* None: break"
ExtractFrame ==
    /\ task.pc = "extract"
    /\ \E x \in {Extracted(task)} :
          /\ task' = [task EXCEPT !.buf = x.buffer, !.rec = x.rec,
                                  !.pc = IF x.rec = None THEN "read" ELSE "handle"]
          /\ op' = [op EXCEPT !.name = "extract",
                              !.started = IF x.rec = None THEN @
                                          ELSE Append(@, [text |-> x.rec, by |-> x.by])]
    /\ UNCHANGED <<hub, last_emit, clock, broken, cfg, sent, hist, other, qrz>>

\* the body of the inner loop on the frame taken
HandlerOf(t) ==
    IF t.kind = "api"
    THEN handle_frame(count_frame(Start, FrameRecord(t.rec)), last_emit, FrameRecord(t.rec))
    ELSE status_line(Start, last_emit, StatusRecord(t.rec))

\* the record the handler was given
RecordOf(t) == IF t.kind = "api" THEN FrameRecord(t.rec) ELSE StatusRecord(t.rec)

\* the rest of a turn of the inner loop: the handler runs to its end, or
\* raises and leaves both loops through the "finally"
HandleFrame ==
    /\ task.pc = "handle"
    /\ \E r \in {HandlerOf(task)} :
          /\ hub' = r.cx.hub
          /\ sent' = r.cx.sent
          /\ last_emit' = r.last_emit
          /\ hist' = [Record(r.cx.sent) EXCEPT !.frames = @ + 1]
          /\ task' = IF r.raised
                     THEN Finally([task EXCEPT !.rec = None], HandlerError(RecordOf(task)))
                     ELSE [task EXCEPT !.rec = None, !.pc = "extract"]
    /\ op' = [op EXCEPT !.name = "handle", !.handled = Append(@, op.started[Len(op.started)])]
    /\ UNCHANGED <<clock, broken, cfg, other, qrz>>

NextFrames ==
    \/ \E n \in ReadSizes(Len(op.stream)) : ReadChunk(n)
    \/ StreamEnds
    \/ ExtractFrame
    \/ HandleFrame

SpecFrames == InitFrames /\ [][NextFrames]_vars

-----------------------------------------------------------------------------
(* C30: frames in arrival order, each once *)

\* the complete frames of a byte string, in the order of their bytes: the
\* text between each <CMD> and the next </CMD>
RECURSIVE Delimited(_)
Delimited(bytes) ==
    LET s == Find(bytes, START, 0)
        e == IF s = 0 - 1 THEN 0 - 1 ELSE Find(bytes, END, s)
    IN  IF s = 0 - 1 \/ e = 0 - 1 THEN << >>
        ELSE <<SubSeq(bytes, s + Len(START) + 1, e)>> \o Delimited(From(bytes, e + Len(END)))

IsFrame(x) == x.by = "frame"

\* the texts of the frames among the units taken out of the buffer
FrameTexts(units) ==
    [i \in 1..Len(SelectSeq(units, IsFrame)) |-> SelectSeq(units, IsFrame)[i].text]

IsPrefix(a, b) == Len(a) <= Len(b) /\ a = SubSeq(b, 1, Len(a))

\* the loop is not in the middle of a read's frames: the supervisor waits
\* for bytes or has left the session
Drained == task.pc \notin {"extract", "handle"}

\* a handler has raised
HandlerRaised == task.exc \in {e_float, e_index}

\* the line fallback has taken the head of a delimited frame
Torn == \E i \in 1..Len(op.started) :
            op.started[i].by = "line" /\ Contains(op.started[i].text, START)

\* every unit taken has had its handler run to the end before the next was
\* taken
OneAtATime ==
    /\ IsPrefix(op.handled, op.started)
    /\ Len(op.started) - Len(op.handled) <= 1
    /\ (task.pc = "handle") = (Len(op.started) > Len(op.handled))

\* C30 as stated: within one connection the complete frames are handled in
\* the order their bytes arrived, each exactly once: the frames taken are
\* the first of those that arrived, in order; once the loop has gone through
\* what was read, every complete frame that arrived has been handled; and a
\* handler finishes before the next frame is dispatched
C30_InOrderOnce ==
    /\ IsPrefix(FrameTexts(op.started), Delimited(op.arrived))
    /\ Drained => FrameTexts(op.handled) = Delimited(op.arrived)
    /\ OneAtATime

\* what holds: the same as long as no handler has raised and the line
\* fallback of the status connection has not taken part of a frame
C30_ExceptRaisedOrTorn ==
    /\ ~Torn => IsPrefix(FrameTexts(op.started), Delimited(op.arrived))
    /\ (Drained /\ ~Torn /\ ~HandlerRaised) =>
          FrameTexts(op.handled) = Delimited(op.arrived)
    /\ OneAtATime

\* a handler raised with a complete frame still in the buffer: the frame
\* arrived and is never handled
C30_Witness_Lost ==
    /\ task.kind = "api"
    /\ HandlerRaised
    /\ Len(Delimited(op.arrived)) > Len(op.handled)
    /\ Delimited(task.buf) # << >>

\* a frame of the status connection whose head was taken as a line is not
\* handled, and the frame after it is
C30_Witness_Torn ==
    /\ task.kind = "status"
    /\ Torn
    /\ ~HandlerRaised
    /\ Drained
    /\ op.stream = << >>
    /\ ~IsPrefix(FrameTexts(op.handled), Delimited(op.arrived))

\* two frames that arrived in one read have been handled, in their order
C30_Witness_InOrder ==
    /\ task.pc = "read"
    /\ op.name = "extract"
    /\ op.arrived = b_apiver \o b_opinfo
    /\ FrameTexts(op.handled) = Delimited(b_apiver \o b_opinfo)
    /\ Len(op.handled) = MaxUnits
    /\ hub.state.apiver = s_1
    /\ hub.origin.lat # None
-----------------------------------------------------------------------------
(* C31: the bootstrap of the API connection *)

\* the order the commands are to be written in: version, program identity,
\* enable push updates, request operator info
BootOrder == <<"APIVER", "PROGRAM", "SETUPDATESTATE", "OPINFO">>

\* a heartbeat sub-task that has not finished
HbAlive(t) == t.hb \in {"running", "cancelling"}

\* the step wrote a bootstrap command
BootWritten(o) == o.name = "send"

\* C31: on every API connection the supervisor writes version, program
\* identity, enable push updates and request operator info, in this order,
\* counted from the connect; the heartbeat is started by the write of the
\* fourth and the supervisor reads only after it; a heartbeat is started
\* only where none exists and a new connection is made only when the
\* heartbeat of the last one has finished
C31_BootstrapThenHeartbeat ==
    /\ [](task.kind = "api" =>
            /\ task.boot \in 0..Len(BootOrder)
            /\ (task.hb # "none" => task.boot = Len(BootOrder))
            /\ (task.pc = "read" => task.boot = Len(BootOrder) /\ task.hb # "none")
            /\ (op.name \in {"connected", "announced"} => task.boot = 0))
    /\ [][/\ BootWritten(op') =>
                /\ task.kind = "api"
                /\ task'.boot = task.boot + 1
                /\ Len(op'.wrote) = 1
                /\ op'.wrote[1].cmd = BootOrder[task'.boot]
                /\ task.hb = "none"
                /\ (task'.hb = "running") = (task'.boot = Len(BootOrder))
                /\ (task'.pc = "read") = (task'.boot = Len(BootOrder))
          /\ (HbAlive(task') /\ ~HbAlive(task)) => BootWritten(op')
          /\ op'.name = "connected" => ~HbAlive(task)]_vars

\* the fourth command is written, the heartbeat runs and the supervisor
\* reads, on a connection made after another one was lost
C31_Witness ==
    /\ task.kind = "api"
    /\ task.pc = "read"
    /\ task.hb = "running"
    /\ op.name = "send"
    /\ op.wrote = <<CmdOpinfo>>
    /\ hub.state.last_disconnect_ts # None

-----------------------------------------------------------------------------
(* The dispatch of a frame of the API connection *)

\* the frames: one for each handler; a contact whose comment names the
\* version response; an operator-info response that names the lookup
\* response; and a frame no handler knows
t_apiver ==
    <<"<","A","P","I","V","E","R","R","E","S","P","O","N","S","E",">","<","A",
      "P","I","V","E","R",">","1","<","/","A","P","I","V","E","R",">">>
t_program ==
    <<"<","P","R","O","G","R","A","M","R","E","S","P","O","N","S","E",">","<",
      "P","G","M",">","F","D","<","/","P","G","M",">","<","V","E","R",">","1",
      "<","/","V","E","R",">">>
t_opinfo ==
    <<"<","O","P","I","N","F","O","R","E","S","P","O","N","S","E",">","<","G",
      "R","I","D",">","F","N","3","1","p","r","<","/","G","R","I","D",">">>
t_enter ==
    <<"<","E","N","T","E","R","E","V","E","N","T",">","<","C","A","L","L",">",
      "W","1","A","W","<","/","C","A","L","L",">","<","B","A","N","D",">","2",
      "0","<","/","B","A","N","D",">","<","M","O","D","E",">","C","W","<","/",
      "M","O","D","E",">","<","L","A","T",">","4","5",".","0","<","/","L","A",
      "T",">","<","L","O","N",">","7","5",".","5","<","/","L","O","N",">">>
t_lookup ==
    <<"<","C","O","U","N","T","R","Y","L","I","S","T","L","O","O","K","U","P",
      "R","E","S","P","O","N","S","E",">","<","C","A","L","L",">","W","1","A",
      "W","<","/","C","A","L","L",">","<","L","A","T",">","4","5",".","0","<",
      "/","L","A","T",">","<","L","O","N",">","7","5",".","5","<","/","L","O",
      "N",">">>
t_enter_apiver ==
    <<"<","E","N","T","E","R","E","V","E","N","T",">","<","C","A","L","L",">",
      "W","1","A","W","<","/","C","A","L","L",">","<","B","A","N","D",">","2",
      "0","<","/","B","A","N","D",">","<","M","O","D","E",">","C","W","<","/",
      "M","O","D","E",">","<","C","O","M","M","E","N","T","S",">","a","p","i",
      "v","e","r","r","e","s","p","o","n","s","e","<","/","C","O","M","M","E",
      "N","T","S",">">>
t_opinfo_lookup ==
    <<"<","O","P","I","N","F","O","R","E","S","P","O","N","S","E",">","<","G",
      "R","I","D",">","F","N","3","1","p","r","<","/","G","R","I","D",">","<",
      "N","O","T","E",">","C","O","U","N","T","R","Y","L","I","S","T","L","O",
      "O","K","U","P","R","E","S","P","O","N","S","E","<","/","N","O","T","E",
      ">">>
t_update ==
    <<"<","U","P","D","A","T","E","R","E","S","P","O","N","S","E",">","<","V",
      "A","L","U","E",">","T","R","U","E","<","/","V","A","L","U","E",">">>

DispatchTexts ==
    {t_apiver, t_program, t_opinfo, t_enter, t_lookup, t_enter_apiver, t_opinfo_lookup,
     t_update}

\* 'if "<COMMAND>" in recU', for the last of them 'and hub.origin["lat"] is
\* not None'
Matched(cx, text, i) ==
    /\ Contains(Upper(text), CommandChars[i][2])
    /\ CommandChars[i][1] = "COUNTRYLISTLOOKUPRESPONSE" => cx.hub.origin.lat # None

\* the body of the i-th "if"
RunHandler(cx, le, rec, i) ==
    IF CommandChars[i][1] = "APIVERRESPONSE" THEN apiver_response(cx, le, rec)
    ELSE IF CommandChars[i][1] = "PROGRAMRESPONSE" THEN program_response(cx, le, rec)
    ELSE IF CommandChars[i][1] = "OPINFORESPONSE" THEN opinfo_response(cx, le, rec)
    ELSE IF CommandChars[i][1] = "ENTEREVENT" THEN enter_event(cx, le, rec)
    ELSE lookup_response(cx, le, rec)

RECURSIVE dispatch_from(_, _, _, _, _)

\* a body without its "continue": the tests that follow are made too
Continue_falls_through(r, text, i, ran) ==
    IF r.raised THEN r @@ [ran |-> ran]
    ELSE dispatch_from(r.cx, r.last_emit, text, i + 1, ran)

\* the "continue" that ends every body: the loop takes the next frame
Continue(r, text, i, ran) == r @@ [ran |-> ran]

\* the chain of "if" of the read loop from the i-th on; ran lists the
\* bodies that were run
dispatch_from(cx, le, text, i, ran) ==
    IF i > Len(CommandChars) THEN Handled(cx, le, << >>) @@ [ran |-> ran]
    ELSE IF Matched(cx, text, i)
         THEN Continue(RunHandler(cx, le, [cmd |-> CommandChars[i][1]] @@ TagFields(text), i),
                       text, i, Append(ran, CommandChars[i][1]))
    ELSE dispatch_from(cx, le, text, i + 1, ran)

\* one turn of the inner loop of n3fjp_api_client on the text of a frame
dispatch(cx, le, text) ==
    dispatch_from(count_frame(cx, FrameRecord(text)), le, text, 1, << >>)

DispatchFrame(text) ==
    /\ hist.frames < MaxFrames
    /\ \E r \in {dispatch(Start, last_emit, text)} :
          /\ ~r.raised
          /\ hub' = r.cx.hub
          /\ sent' = r.cx.sent
          /\ last_emit' = r.last_emit
          /\ op' = [name |-> "dispatch", text |-> text, ran |-> r.ran, wrote |-> r.wrote,
                    before |-> hub]
          /\ hist' = [Record(r.cx.sent) EXCEPT !.frames = @ + 1]
    /\ UNCHANGED <<clock, broken, cfg, task, other, qrz>>

NextDispatch == \E text \in DispatchTexts : DispatchFrame(text)

SpecDispatch == Init /\ [][NextDispatch]_vars

-----------------------------------------------------------------------------
(* C32: one handler for a frame, the first that matches *)

\* the handlers in the order the claim gives them
HandlerOrder ==
    <<"APIVERRESPONSE", "PROGRAMRESPONSE", "OPINFORESPONSE", "ENTEREVENT",
      "COUNTRYLISTLOOKUPRESPONSE">>

\* the places in HandlerOrder of the handlers that match the frame: those
\* whose command the upper-cased text holds, the lookup response only with
\* an origin known to the Hub
Matching(text, h) ==
    {i \in 1..Len(HandlerOrder) :
        /\ Contains(Upper(text), CommandChars[i][2])
        /\ CommandChars[i][1] = HandlerOrder[i]
        /\ HandlerOrder[i] = "COUNTRYLISTLOOKUPRESPONSE" => h.origin.lat # None}

FirstOf(S) == CHOOSE i \in S : \A j \in S : i <= j

Dispatched == op.name = "dispatch"

\* C32: a frame of the API connection is handled by at most one handler,
\* the first of those that match in the order version response, program
\* response, operator-info response, contact, lookup response; no handler
\* runs after it, and a frame that matches none is handled by none
C32_FirstMatchOnly ==
    Dispatched =>
        /\ Len(op.ran) <= 1
        /\ Matching(op.text, op.before) = {} => op.ran = << >>
        /\ Matching(op.text, op.before) # {} =>
              op.ran = <<HandlerOrder[FirstOf(Matching(op.text, op.before))]>>

\* a contact whose comment names the version response was handled as a
\* version response and as nothing else: no operator-info request was
\* written, no lookup was noted and no path was drawn
C32_Witness ==
    /\ Dispatched
    /\ op.text = t_enter_apiver
    /\ Cardinality(Matching(op.text, op.before)) = 2
    /\ op.ran = <<"APIVERRESPONSE">>
    /\ op.wrote = << >>
    /\ hub.pending_meta = op.before.pending_meta
    /\ hub.recent_paths = op.before.recent_paths

\* a lookup response that arrived with no origin known was handled by none
C32_Witness_NoOrigin ==
    /\ Dispatched
    /\ op.text = t_lookup
    /\ op.before.origin.lat = None
    /\ op.ran = << >>

-----------------------------------------------------------------------------
(* C33: a frame no handler knows *)

\* the supervisor is about to handle a frame that no handler of its
\* connection recognizes: on the API connection none of the commands
\* matches, on the status connection the parser finds no station, call or
\* operator
Unrecognized ==
    /\ task.pc = "handle"
    /\ IF task.kind = "api" THEN Matching(task.rec, hub) = {}
       ELSE parse_station_status_payload(StatusRecord(task.rec)) = NoDict

\* what the claim says a dropped frame leaves alone
Kept(h) ==
    <<h.origin, h.station_origins, h.sections_worked, h.countries_worked,
      h.pending_meta, h.recent_paths, h.recent_draw, h.operators_seen>>

\* C33 as stated: a frame that no handler recognizes, on either connection,
\* adds one to the frames-parsed counter and is dropped: nothing is
\* broadcast and origin, stations, worked sets, pending lookups and recent
\* events stay as they are
C33_CountedThenDropped ==
    [][Unrecognized =>
          /\ hub'.metrics.frames_parsed_total = hub.metrics.frames_parsed_total + 1
          /\ sent' = << >>
          /\ Kept(hub') = Kept(hub)]_vars

\* what holds: the frame is dropped on both connections and counted on the
\* API connection; on the status connection the Hub is left as it is
C33_ExceptStatusCount ==
    [][Unrecognized =>
          /\ sent' = << >>
          /\ Kept(hub') = Kept(hub)
          /\ task.kind = "api" =>
                hub'.metrics.frames_parsed_total = hub.metrics.frames_parsed_total + 1
          /\ task.kind = "status" => hub' = hub]_vars

\* an unknown frame of the status connection has been handled and the
\* counter stands at zero
C33_Witness_Uncounted ==
    /\ task.kind = "status"
    /\ op.name = "handle"
    /\ op.handled[Len(op.handled)].text = Delimited(b_update)[1]
    /\ hub.metrics.frames_parsed_total = 0

\* an unknown frame of the API connection has been handled and counted
C33_Witness_Counted ==
    /\ task.kind = "api"
    /\ op.name = "handle"
    /\ op.handled[Len(op.handled)].text = Delimited(b_update)[1]
    /\ hub.metrics.frames_parsed_total = Len(op.handled)
    /\ hub.state.last_raw # NoDict

-----------------------------------------------------------------------------
(* The handler of a contact, await by await *)

\* the frames: a contact with coordinates, one logged at station 'Run 2',
\* one with no destination, and two answers to OPINFO, a locator and
\* coordinates
ContactFrames ==
    {Enter @@ [CALL |-> s_W1AW, BAND |-> s_20, MODE |-> s_CW, LAT |-> s_45, LON |-> s_75],
     Enter @@ [CALL |-> s_K1ABC, BAND |-> s_20, MODE |-> s_CW, LAT |-> s_45, LON |-> s_75,
               STATIONNAME |-> s_Run2],
     Enter @@ [CALL |-> s_K1ABC, BAND |-> s_40, MODE |-> s_PH],
     [cmd |-> "OPINFORESPONSE", GRID |-> s_FN31pr],
     [cmd |-> "OPINFORESPONSE", LAT |-> s_41, LON |-> s_72]}

\* what the status feed says meanwhile: station 'Run 2' reports where it is
ContactLines == {Line @@ [pairs |-> [station |-> s_Run2, lat |-> s_52, longitude |-> s_east]]}

\* the API supervisor is connected and reads
InitContact ==
    /\ \E d \in Deployments :
          /\ cfg = d.cfg
          /\ hub = preload_station_origins(NewHub(PRIMARY_STATION_NAME), d.presets)
    /\ last_emit = 0
    /\ clock = Epoch
    /\ broken = {}
    /\ sent = << >>
    /\ op = [name |-> "init"]
    /\ hist = NoHist
    /\ task = Reading("api")
    /\ other = NotStarted
    /\ qrz = NewQrz

\* a handler that resolves without asking
ContactRequest_silent(rec) ==
    /\ task.pc = "read" /\ task.link = "up"
    /\ rec.cmd = "ENTEREVENT"
    /\ hist.frames < MaxFrames
    /\ hub' = count_frame(Start, rec).hub
    /\ sent' = << >>
    /\ op' = [name |-> "request", rec |-> rec, wrote |-> << >>]
    /\ hist' = [hist EXCEPT !.frames = @ + 1]
    /\ task' = [task EXCEPT !.pc = "enter", !.rec = rec]
    /\ UNCHANGED <<last_emit, clock, broken, cfg, other, qrz>>

\* a contact is taken from the buffer and counted, and "await
\* refresh_origin_from_opinfo()" writes OPINFO and awaits the drain
ContactRequest(rec) ==
    /\ task.pc = "read" /\ task.link = "up"
    /\ rec.cmd = "ENTEREVENT"
    /\ hist.frames < MaxFrames
    /\ hub' = count_frame(Start, rec).hub
    /\ sent' = << >>
    /\ op' = [name |-> "request", rec |-> rec, wrote |-> <<CmdOpinfo>>]
    /\ hist' = [hist EXCEPT !.frames = @ + 1]
    /\ task' = [task EXCEPT !.pc = "enter", !.rec = rec]
    /\ UNCHANGED <<last_emit, clock, broken, cfg, other, qrz>>

\* the drain returns: the rest of the handler
ContactResolve ==
    /\ task.pc = "enter" /\ task.link = "up"
    /\ \E r \in {enter_event(Start, last_emit, task.rec)} :
          /\ ~r.raised
          /\ hub' = r.cx.hub
          /\ sent' = r.cx.sent
          /\ last_emit' = r.last_emit
          /\ op' = [Handling(task.rec, r) EXCEPT !.wrote = Tail(r.wrote)]
          /\ hist' = Record(r.cx.sent)
    /\ task' = [task EXCEPT !.pc = "read", !.rec = None]
    /\ UNCHANGED <<clock, broken, cfg, other, qrz>>

\* the connection is lost while the handler awaits the drain
ContactLinkLost ==
    /\ task.pc = "enter" /\ task.link = "up"
    /\ TaskStep("link_lost", hub, [task EXCEPT !.link = "lost"], << >>)
    /\ UNCHANGED last_emit

\* the drain raises: the handler ends there and the loops are left
ContactWriteFails ==
    /\ task.pc = "enter" /\ task.link = "lost"
    /\ TaskStep("send_fails", hub, Finally([task EXCEPT !.rec = None], e_lost), << >>)
    /\ UNCHANGED last_emit

\* a frame that is no contact
AnswerFrame(rec) ==
    /\ task.pc = "read" /\ task.link = "up"
    /\ rec.cmd # "ENTEREVENT"
    /\ WireFrame(rec)

\* the status supervisor handles a line while the API supervisor is
\* suspended
StationHeard(line) ==
    /\ task.pc \in {"read", "enter"}
    /\ StatusLine(line)

NextContact ==
    \/ \E rec \in ContactFrames : ContactRequest(rec)
    \/ ContactResolve
    \/ ContactLinkLost
    \/ ContactWriteFails
    \/ \E rec \in ContactFrames : AnswerFrame(rec)
    \/ \E line \in ContactLines : StationHeard(line)

SpecContact == InitContact /\ [][NextContact]_vars

-----------------------------------------------------------------------------
(* C34: the operator-info request of a contact *)

\* the origin the Hub knows for a station: where the station is stored,
\* the global origin for a station not heard of or for no station
KnownOrigin(h, name) ==
    IF Truthy(name) /\ Folded(name) \in DOMAIN h.station_origins
    THEN LocationOf(h.station_origins[Folded(name)])
    ELSE <<h.origin.lat, h.origin.lon, h.origin.grid>>

\* the paths among the messages of a step
PathsIn(ms) == SelectSeq(ms, IsPath)

\* what resolving a contact changes
Resolved(h) == <<h.pending_meta, h.recent_paths, h.recent_draw, h.station_origins,
                 h.operators_seen, h.next_path_id>>

\* the step handled the rest of a contact
ContactResolved(o) == o.name = "ENTEREVENT"

\* C34: for every contact the supervisor writes the operator-info request
\* first, in a step that resolves and emits nothing; the destination is
\* resolved and the path emitted only after that write has returned; the
\* path starts from the origin the Hub knows when the contact is resolved,
\* and the answer to the request, handled later, leaves the path as drawn
C34_RequestThenPath ==
    [][/\ (task.pc = "read" /\ task'.pc = "enter") =>
             /\ op'.wrote = <<CmdOpinfo>>
             /\ sent' = << >>
             /\ Resolved(hub') = Resolved(hub)
       /\ ContactResolved(op') =>
             /\ task.pc = "enter"
             /\ op'.rec = task.rec
             /\ \A i \in 1..Len(PathsIn(sent')) :
                   LocationOf(PathsIn(sent')[i].data.from)
                       = KnownOrigin(hub, EnterFields(task.rec).station_name)
       /\ (task.pc = "enter" /\ task'.pc # "enter" /\ ~ContactResolved(op')) =>
             /\ sent' = << >>
             /\ Resolved(hub') = Resolved(hub)
       /\ op'.name = "OPINFORESPONSE" => hub'.recent_paths = hub.recent_paths]_vars

\* a contact was drawn from one origin and the answer to its request,
\* handled after it, has moved the origin somewhere else
C34_Witness ==
    /\ op.name = "OPINFORESPONSE"
    /\ Len(hub.recent_paths) = 1
    /\ hub.origin.lat # None
    /\ LocationOf(hub.recent_paths[1].from) # LocationOf(hub.origin)

\* a contact logged at 'Run 2' was drawn from where the status feed said
\* 'Run 2' is, heard while the handler awaited its write
C34_Witness_Station ==
    /\ ContactResolved(op)
    /\ PathsIn(sent) # << >>
    /\ EnterFields(op.rec).station_name = s_Run2
    /\ LocationOf(PathsIn(sent)[1].data.from) # LocationOf(hub.origin)
    /\ hist.frames = MaxFrames

-----------------------------------------------------------------------------
(* C35: the frames do not depend on how the stream is read *)

\* the texts N3FJP puts between <CMD> and </CMD> on a connection
Bodies(kind) == UNION {{Delimited(u)[i] : i \in 1..Len(Delimited(u))} : u \in Units(kind)}

\* C35: on the API connection, whatever the reads were, the frames taken
\* from the buffer are the first of the frames that taking them from the
\* whole stream in one read gives, in the same order, and all of them once
\* the loop waits for bytes again; every frame is a text that was sent
\* between delimiters, with none of the bytes around it
C35_SplitIndependent ==
    task.kind = "api" =>
        /\ IsPrefix(FrameTexts(op.started), Delimited(op.arrived))
        /\ task.pc = "read" => FrameTexts(op.started) = Delimited(op.arrived)
        /\ \A i \in 1..Len(op.started) :
              op.started[i].by = "frame" /\ op.started[i].text \in Bodies("api")

\* a frame came in three reads or more and was taken once, whole, and the
\* bytes before its <CMD> are gone from the buffer
C35_Witness ==
    /\ task.kind = "api"
    /\ op.name = "extract"
    /\ task.pc = "handle"
    /\ Len(op.started) = 1
    /\ Len(op.arrived) > Len(b_tail)
    /\ SubSeq(op.arrived, 1, Len(b_tail)) = b_tail
    /\ Len(task.buf) + Len(op.stream) < Len(b_apiver)
    /\ Len(op.stream) > 0

\* one read brought two frames
C35_Witness_Many ==
    /\ task.kind = "api"
    /\ task.pc = "read"
    /\ Len(op.started) = MaxUnits
    /\ Len(op.arrived) = Len(b_apiver \o b_update)
    /\ hub.metrics.frames_parsed_total = MaxUnits

-----------------------------------------------------------------------------
(* C36: the units of the status connection and the reads *)

\* the units the loop of the status connection takes from a buffer that
\* holds the whole of the bytes: what one read of everything gives
RECURSIVE DrainStatus(_)
DrainStatus(buffer) ==
    IF extract_status(buffer).rec = None THEN << >>
    ELSE <<[text |-> extract_status(buffer).rec, by |-> extract_status(buffer).by]>>
         \o DrainStatus(extract_status(buffer).buffer)

\* the unit was taken from the buffer
Taken(text, by) ==
    \E i \in 1..Len(op.started) : op.started[i].text = text /\ op.started[i].by = by

\* C36 as stated: on the status connection the units handed to the parser
\* do not depend on the reads: whenever the loop waits for bytes they are
\* the units one read of all the bytes arrived gives; no line is the head
\* of a delimited frame; and a line that has arrived is among them, also
\* when a frame came after it in the same read
C36_SplitIndependent ==
    (task.kind = "status" /\ task.pc = "read") =>
        /\ op.started = DrainStatus(op.arrived)
        /\ ~Torn
        /\ IsPrefix(b_line, op.arrived) => Taken(StripWhite(b_line), "line")

\* the frame with a newline between its tags came in two reads, the first
\* ending after the newline: its head was handed to the parser as a line
\* and the frame never
C36_Witness_Torn ==
    /\ task.kind = "status" /\ task.pc = "read"
    /\ op.arrived = b_status_two
    /\ Torn
    /\ ~Taken(Delimited(b_status_two)[1], "frame")
    /\ DrainStatus(op.arrived)[1] = [text |-> Delimited(b_status_two)[1], by |-> "frame"]

\* a line and the frame after it came in one read: the frame was handed to
\* the parser and the line was not
C36_Witness_Discarded ==
    /\ task.kind = "status" /\ task.pc = "read"
    /\ op.arrived = b_line \o b_status
    /\ Taken(Delimited(b_status)[1], "frame")
    /\ ~Taken(StripWhite(b_line), "line")

\* the same bytes in two reads, the line first: the line was handed to the
\* parser, and the frame after it
C36_Witness_Processed ==
    /\ task.kind = "status" /\ task.pc = "read"
    /\ op.arrived = b_line \o b_status
    /\ Taken(Delimited(b_status)[1], "frame")
    /\ Taken(StripWhite(b_line), "line")

-----------------------------------------------------------------------------
(* ws_endpoint and Hub.connect, one await at a time *)

\* the sends of Hub.connect in the order of its code: the type, what is
\* sent, and the condition of the "if" in front of the send
ConnectSends == <<"status", "origin", "station_origins", "operators", "sections_worked",
               "countries_worked">>

ConnectData(h, k) ==
    CASE k = 1 -> compose_status(h)
      [] k = 2 -> origin_payload(h)
      [] k = 3 -> station_origin_entries(h)
      [] k = 4 -> h.operators_seen
      [] k = 5 -> h.sections_worked
      [] k = 6 -> h.countries_worked

JoinDue(h, k) ==
    CASE k = 1 -> TRUE
      [] k = 2 -> h.origin.lat # None
      [] k = 3 -> DOMAIN h.station_origins # {}
      [] k = 4 -> h.operators_seen # {}
      [] k = 5 -> h.sections_worked # {}
      [] k = 6 -> h.countries_worked # {}

\* the next send after the k-th that the Hub's fields call for, 0 if none
NextDue(h, k) ==
    IF \E j \in (k + 1)..Len(ConnectSends) : JoinDue(h, j)
    THEN CHOOSE j \in (k + 1)..Len(ConnectSends) :
            JoinDue(h, j) /\ \A i \in (k + 1)..(j - 1) : ~JoinDue(h, i)
    ELSE 0

\* the coroutine ws_endpoint of a socket: where it is suspended (pc: not
\* accepted, in the at-th send of Hub.connect, in receive_text, or ended by
\* the exception of a send), and got, history: the messages handed to the
\* socket since it was accepted, in the order of the send_json calls
Endpoint(pc, at, got) == [pc |-> pc, at |-> at, got |-> got]
NotAccepted == Endpoint("closed", 0, << >>)

Got(type, bcast) == [type |-> type, bcast |-> bcast]

\* the broadcast messages of a step that went to the socket
RECURSIVE Delivered(_, _)
Delivered(ms, ws) ==
    IF ms = << >> THEN << >>
    ELSE (IF ws \in Head(ms).to THEN <<Got(Head(ms).type, TRUE)>> ELSE << >>)
         \o Delivered(Tail(ms), ws)

InitJoin ==
    /\ \E d \in Deployments :
          /\ cfg = d.cfg
          /\ hub = preload_station_origins(NewHub(PRIMARY_STATION_NAME), d.presets)
    /\ last_emit = 0
    /\ clock = Epoch
    /\ broken = {}
    /\ sent = << >>
    /\ op = [name |-> "init"]
    /\ hist = NoHist
    /\ task = NotStarted
    /\ other = [ws \in Sockets |-> NotAccepted]
    /\ qrz = NewQrz

\* "await ws.accept(); self.clients.add(ws); self.metrics[...] = len(...);
\* await ws.send_json({"type": "status", ...})": the coroutine runs to the
\* await of its first send
JoinStart(ws) ==
    /\ other[ws].pc \in {"closed", "failed"}
    /\ ws \notin hub.clients
    /\ LET cl == hub.clients \cup {ws}
           h == [hub EXCEPT !.clients = cl, !.metrics.ws_clients_gauge = Cardinality(cl)]
           cx == send_json([hub |-> h, sent |-> << >>], ws, "status", compose_status(h))
       IN  /\ hub' = cx.hub
           /\ sent' = cx.sent
    /\ broken' = broken \ {ws}
    /\ other' = [other EXCEPT ![ws] = Endpoint("join", 1, <<Got("status", FALSE)>>)]
    /\ op' = [name |-> "join_start", ws |-> ws]
    /\ UNCHANGED <<last_emit, clock, cfg, hist, task, qrz>>

\* the send the coroutine waits in returns: it goes on to the next send the
\* Hub's fields call for now, or returns from Hub.connect into
\* "await ws.receive_text()"
JoinSend(ws) ==
    /\ other[ws].pc = "join"
    /\ ws \notin broken
    /\ LET k == NextDue(hub, other[ws].at)
       IN  IF k = 0
           THEN /\ other' = [other EXCEPT ![ws].pc = "serve", ![ws].at = 0]
                /\ sent' = << >>
           ELSE /\ other' = [other EXCEPT ![ws].at = k,
                                          ![ws].got = Append(@, Got(ConnectSends[k], FALSE))]
                /\ sent' = send_json(Start, ws, ConnectSends[k], ConnectData(hub, k)).sent
    /\ op' = [name |-> "join_send", ws |-> ws]
    /\ UNCHANGED <<hub, last_emit, clock, broken, cfg, hist, task, qrz>>

\* the send the coroutine waits in raises: the exception leaves
\* Hub.connect and ws_endpoint, whose try starts after the call of connect
JoinFail(ws) ==
    /\ other[ws].pc = "join"
    /\ ws \in broken
    /\ other' = [other EXCEPT ![ws].pc = "failed"]
    /\ sent' = << >>
    /\ op' = [name |-> "join_fail", ws |-> ws]
    /\ UNCHANGED <<hub, last_emit, clock, broken, cfg, hist, task, qrz>>

\* "except WebSocketDisconnect: hub.disconnect(ws)": receive_text raises
ServeEnd(ws) ==
    /\ other[ws].pc = "serve"
    /\ hub' = disconnect(hub, ws)
    /\ broken' = broken \ {ws}
    /\ other' = [other EXCEPT ![ws] = NotAccepted]
    /\ sent' = << >>
    /\ op' = [name |-> "serve_end", ws |-> ws]
    /\ UNCHANGED <<last_emit, clock, cfg, hist, task, qrz>>

\* the socket of a subscriber dies: the next send to it raises
SocketBreaks(ws) ==
    /\ other[ws].pc \in {"join", "serve"}
    /\ ws \notin broken
    /\ broken' = broken \cup {ws}
    /\ sent' = << >>
    /\ op' = [name |-> "break", ws |-> ws]
    /\ UNCHANGED <<hub, last_emit, clock, cfg, hist, task, other, qrz>>

\* the calls of the connection tasks that broadcast: the status after a
\* change of the connection state, a station's location, a station heard
\* without one, and a path event
TaskCalls == {"status", "station_origin", "presence", "path"}

TaskCall(c) ==
    CASE c = "status" ->
            broadcast_status([hub |-> update_connection_state(hub, "api", TRUE,
                                                              Port("api"), None),
                              sent |-> << >>])
      [] c = "station_origin" -> set_station_origin(Start, s_Run2, There)
      [] c = "presence" ->
            update_station_presence(Start, s_Run1, M_band, NoDict, s_api, FALSE)
      [] c = "path" -> emit_path(Start, Here, M_W1AW, 0, There)

\* a connection task makes the call while the endpoints wait
TaskBroadcasts(c) ==
    /\ hist.updates < MaxUpdates
    /\ \E cx \in {TaskCall(c)} :
          /\ hub' = cx.hub
          /\ sent' = cx.sent
          /\ other' = [ws \in Sockets |->
                          [other[ws] EXCEPT !.got = @ \o Delivered(cx.sent, ws)]]
          /\ op' = [name |-> "task_call", call |-> c, clients |-> hub.clients,
                    dead |-> hub.clients \cap broken]
          /\ hist' = [Record(cx.sent) EXCEPT !.updates = @ + 1]
    /\ UNCHANGED <<last_emit, clock, broken, cfg, task, qrz>>

NextJoin ==
    \/ \E ws \in Sockets : JoinStart(ws)
    \/ \E ws \in Sockets : JoinSend(ws)
    \/ \E ws \in Sockets : JoinFail(ws)
    \/ \E ws \in Sockets : ServeEnd(ws)
    \/ \E ws \in Sockets : SocketBreaks(ws)
    \/ \E c \in TaskCalls : TaskBroadcasts(c)

SpecJoin == InitJoin /\ [][NextJoin]_vars

-----------------------------------------------------------------------------
(* C37: the join sequence and the broadcasts of the connection tasks *)

\* the socket is a client whose sends do not raise
Listening(ws) == other[ws].pc \in {"join", "serve"} /\ ws \notin broken

\* a broadcast message was handed to the socket before a message of its
\* join sequence
Overtaken(ws) ==
    \E i, j \in 1..Len(other[ws].got) :
        i < j /\ other[ws].got[i].bcast /\ ~other[ws].got[j].bcast

\* every broadcast of the call a connection task has just made went to
\* every socket whose status snapshot had been composed
NoneMissed ==
    op'.name = "task_call" =>
        \A ws \in Sockets :
            Listening(ws) =>
                \A i \in 1..Len(sent') : sent'[i].bcast => ws \in sent'[i].to

\* C37 as stated: no broadcast of a connection task reaches a subscriber
\* before the last message of its join sequence, and a subscriber misses
\* no broadcast that starts after its status snapshot was composed
C37_JoinUninterrupted ==
    /\ [](\A ws \in Sockets : ~Overtaken(ws))
    /\ [][NoneMissed]_vars

\* what the code ensures: a subscriber misses no broadcast that starts
\* after its status snapshot was composed, and the messages of its join
\* sequence reach it in the order of Hub.connect
C37_NoneMissedInOrder ==
    /\ [][NoneMissed]_vars
    /\ [](\A ws \in Sockets : \A i, j \in 1..Len(other[ws].got) :
            (i < j /\ ~other[ws].got[i].bcast /\ ~other[ws].got[j].bcast) =>
                \E a, b \in 1..Len(ConnectSends) :
                    /\ a < b
                    /\ ConnectSends[a] = other[ws].got[i].type
                    /\ ConnectSends[b] = other[ws].got[j].type)

\* a path event was broadcast while the subscriber waited in the status
\* send of its join: it received the path event before its origin and
\* station origins
C37_Witness_Overtaken ==
    /\ other["ws2"].pc = "serve"
    /\ Head(other["ws2"].got) = Got("status", FALSE)
    /\ \E i, j \in 1..Len(other["ws2"].got) :
          /\ i < j
          /\ other["ws2"].got[i] = Got("path", TRUE)
          /\ other["ws2"].got[j] = Got("origin", FALSE)

\* a broadcast made during the join went to the joiner and to the
\* subscriber that was there before
C37_Witness_NoneMissed ==
    /\ op.name = "task_call"
    /\ other["ws2"].pc = "join"
    /\ other["ws1"].pc = "serve"
    /\ sent # << >>
    /\ \A i \in 1..Len(sent) : sent[i].to = {"ws1", "ws2"}

-----------------------------------------------------------------------------
(* C38: the origin of a contact logged at a station without a location *)

\* the station names a caller may pass: none, the primary station, and the
\* station of the second contact
ContactStations == {None, s_Run1, s_Run2}

\* the station has a stored entry and the entry has no latitude
Unlocated(h, name) ==
    /\ Truthy(name)
    /\ Stored(h, name) # NoDict
    /\ Stored(h, name).lat = None

\* the handler has a destination with coordinates for the contact, the
\* allow-lists pass it, the handler is not throttled and the contact was
\* not drawn before
Drawable(o) ==
    /\ o.dest # NoDict /\ HasCoords(o.dest)
    /\ ~o.filtered
    /\ o.gap
    /\ o.prev < 0

\* what get_station_origin returns is nothing or has a latitude and a
\* longitude
UsableOrNone(h, name) ==
    \/ get_station_origin(h, name) = NoDict
    \/ HasCoords(get_station_origin(h, name))

\* the handler has just resolved a drawable contact logged at a station
\* that has an entry without a location, while the primary origin is known
UnlocatedContact ==
    /\ ContactResolved(op')
    /\ Unlocated(hub', EnterFields(task.rec).station_name)
    /\ hub.origin.lat # None
    /\ Drawable(op')

\* C38 as stated: get_station_origin returns nothing or an origin with
\* latitude and longitude, and a drawable contact logged at a station that
\* has an entry without a location, while the primary origin is known,
\* yields a path event that starts at the primary origin
C38_FallsBackToPrimary ==
    /\ [](\A name \in ContactStations : UsableOrNone(hub, name))
    /\ [][UnlocatedContact =>
            /\ PathsIn(sent') # << >>
            /\ LocationOf(PathsIn(sent')[1].data.from) = LocationOf(hub.origin)]_vars

\* what the code does: for a station that has an entry get_station_origin
\* returns the location of the entry, also when the entry has none, it
\* returns the primary origin only for a station without an entry, and
\* such a contact yields no path event
C38_EntryAsStored ==
    /\ [](\A name \in ContactStations :
            /\ (Truthy(name) /\ Stored(hub, name) # NoDict) =>
                  get_station_origin(hub, name)
                      = [lat |-> Stored(hub, name).lat, lon |-> Stored(hub, name).lon,
                         grid |-> Stored(hub, name).grid]
            /\ (~Truthy(name) \/ Stored(hub, name) = NoDict) =>
                  get_station_origin(hub, name)
                      = IF hub.origin.lat # None
                        THEN [lat |-> hub.origin.lat, lon |-> hub.origin.lon,
                              grid |-> hub.origin.grid]
                        ELSE NoDict)
    /\ [][UnlocatedContact => PathsIn(sent') = << >> /\ hub'.recent_paths = hub.recent_paths]_vars

\* a contact with coordinates, logged at 'Run 2' of which nothing but its
\* name is known, gave no path event although the primary origin is known
C38_Witness_NoPath ==
    /\ ContactResolved(op)
    /\ EnterFields(op.rec).station_name = s_Run2
    /\ Unlocated(hub, s_Run2)
    /\ hub.origin.lat # None
    /\ Drawable(op)
    /\ PathsIn(sent) = << >>
    /\ get_station_origin(hub, s_Run2) = [lat |-> None, lon |-> None, grid |-> None]

\* a contact that names no station was drawn from the primary origin
C38_Witness_Primary ==
    /\ ContactResolved(op)
    /\ EnterFields(op.rec).station_name = None
    /\ Drawable(op)
    /\ PathsIn(sent) # << >>
    /\ LocationOf(PathsIn(sent)[1].data.from) = LocationOf(hub.origin)

-----------------------------------------------------------------------------
(* C39: the gauge and the client set *)

\* the sockets whose endpoint coroutine is alive
Served == {ws \in Sockets : other[ws].pc \in {"join", "serve"}}

\* the gauge is the size of the client set
GaugeIsCount == hub.metrics.ws_clients_gauge = Cardinality(hub.clients)

\* the call a connection task has just made broadcast something: the
\* clients whose send raised are out of the set, and every message went to
\* all the others
BroadcastPrunes ==
    (op'.name = "task_call" /\ sent' # << >>) =>
        /\ hub'.clients = hub.clients \ broken
        /\ \A i \in 1..Len(sent') : sent'[i].to = hub.clients \ broken

\* C39 as stated: the gauge is the size of the client set; a broadcast
\* removes the subscribers whose send fails and reaches the others; and a
\* subscriber whose join sequence failed is not in the client set
C39_GaugeAndSet ==
    /\ [](GaugeIsCount)
    /\ [][BroadcastPrunes]_vars
    /\ [](\A ws \in Sockets : other[ws].pc = "failed" => ws \notin hub.clients)

\* what the code ensures: the gauge is the size of the client set, a
\* broadcast removes the subscribers whose send fails and reaches the
\* others, a client without a live endpoint is one whose join failed, and
\* the failure of a join leaves the Hub as it is
C39_ExceptFailedJoin ==
    /\ [](GaugeIsCount)
    /\ [][BroadcastPrunes]_vars
    /\ [](\A ws \in hub.clients \ Served : other[ws].pc = "failed")
    /\ [][\A ws \in Sockets :
            (other[ws].pc = "join" /\ other'[ws].pc = "failed") =>
                hub' = hub]_vars

\* the socket died during the join: its endpoint has ended and it is still
\* a client and counted, next to a subscriber that is served
C39_Witness_Stays ==
    /\ other["ws2"].pc = "failed"
    /\ other["ws1"].pc = "serve"
    /\ hub.clients = {"ws1", "ws2"}
    /\ hub.metrics.ws_clients_gauge = 2

\* a broadcast found one of two subscribers dead: it removed it, the gauge
\* went to one and the other subscriber received the message
C39_Witness_Pruned ==
    /\ op.name = "task_call"
    /\ op.clients = {"ws1", "ws2"}
    /\ op.dead = {"ws1"}
    /\ other["ws1"].pc = "serve"
    /\ hub.clients = {"ws2"}
    /\ hub.metrics.ws_clients_gauge = 1
    /\ sent # << >>
    /\ \A i \in 1..Len(sent) : sent[i].to = {"ws2"}

-----------------------------------------------------------------------------
(* Calls of update_connection_state *)

\* the arguments tried: the names of the two supervisors, no port and a
\* port, no error, the empty text and a text
ConnNames == {"api", "status"}
ConnPorts == {None, Port("api")}
ConnErrors == {None, << >>, e_lost}

\* for an entry, the error passed by the last call that named it
LastErrors == IF "last" \in DOMAIN op THEN op.last ELSE << >>

\* a call of the method
UpdateConnectionState(name, connected, port, error) ==
    /\ hub' = update_connection_state(hub, name, connected, port, error)
    /\ sent' = << >>
    /\ op' = [name |-> "update_connection_state", conn |-> name, connected |-> connected,
              port |-> port, error |-> error, last |-> (name :> error) @@ LastErrors]
    /\ UNCHANGED <<last_emit, clock, broken, cfg, hist, task, other, qrz>>

NextConn ==
    \E name \in ConnNames, connected \in BOOLEAN, port \in ConnPorts,
       error \in ConnErrors : UpdateConnectionState(name, connected, port, error)

SpecConn == Init /\ [][NextConn]_vars

-----------------------------------------------------------------------------
(* C40: the connection-state table and its summary *)

\* the global flag is the disjunction of the entries' flags, and the
\* published view is the table
SummaryOfTable ==
    /\ hub.state.connected <=>
          \E k \in DOMAIN hub.connection_states : hub.connection_states[k].connected
    /\ hub.state.connections = hub.connection_states

C40_Witness_Error ==
    /\ op.name = "update_connection_state"
    /\ op.conn = "api" /\ op.connected /\ op.error = e_lost
    /\ hub.connection_states["api"].connected
    /\ hub.connection_states["api"].last_error = e_lost

=============================================================================
